---- MODULE Spec2Model ----
(***************************************************************************)
(* Brillouin-zone visualiser: reciprocal lattice, Bragg-plane clipping and *)
(* zone construction (src/src/core/lattice.js, src/src/core/math.js,       *)
(* geometry.js).                                                           *)
(*                                                                         *)
(* Arithmetic.  The program computes in IEEE doubles.  The model computes  *)
(* exactly in the field Q(sqrt 3): a number is a record [p, q, d] standing *)
(* for (p + q*sqrt(3)) / d with d > 0 and gcd(p, q, d) = 1, so that equal  *)
(* numbers are equal records.  d = 0 stands for the non-finite doubles:    *)
(* [1,0,0] = +Infinity, [-1,0,0] = -Infinity, [0,0,0] = NaN.  Math.PI is   *)
(* the rational PI below.  Rounding errors of the doubles (about 1e-16     *)
(* relative) are therefore not part of the model; the tolerances of the    *)
(* code (1e-9, 1e-12, 1e-14) are compared exactly.                         *)
(***************************************************************************)
EXTENDS Integers, Sequences, FiniteSets, TLC

(***************************************************************************)
(* Bounds of the model.                                                    *)
(***************************************************************************)
MaxCoord == 2     \* 2D real-space basis components range over -MaxCoord..MaxCoord
MaxCoord3 == 1    \* 3D real-space basis components range over 0..MaxCoord3
MaxIndex2D == 2   \* maxIndex of generateReciprocalPoints2D ranges over 1..MaxIndex2D
MaxZone == 3      \* zone orders range over 1..MaxZone
MaxIndex3D == 2   \* maxIndex of generateReciprocalPoints3D ranges over 1..MaxIndex3D
MaxGenCoord == 1  \* components of the 2D bases handed to generateReciprocalPoints2D: -MaxGenCoord..MaxGenCoord
MaxShear == 1     \* off-diagonal entries of the 3D bases handed to generateReciprocalPoints3D: 0..MaxShear
MaxPoly == 1      \* vertex coordinates of the polygons handed to clipPolygonByPlane2D: 0..MaxPoly
MaxOrderIndex == 1  \* maxIndex of the point lists handed to computeFirstBZ2D/3D in another order: 1..MaxOrderIndex
MaxReorder2D == 8 \* reorderings of a 2D point list move entries among its first MaxReorder2D positions
MaxReorder3D == 4 \* reorderings of a 3D point list move entries among its first MaxReorder3D positions
MaxFragIndex == 3 \* maxIndex of the plane lists handed to computeZoneDifference2D: 1..MaxFragIndex
MaxReach == 4     \* the farthest points handed to pointInPolyhedron are MaxReach * G
MaxTiny == 4      \* the short reciprocal points have the lengths 1e-9, ..., MaxTiny * 1e-9
MaxSample == 3    \* sampled k-points are (i*pi/2, j*pi/2), i and j in -MaxSample..MaxSample

(***************************************************************************)
(* Numbers.                                                                *)
(***************************************************************************)
Abs(x) == IF x < 0 THEN -x ELSE x

Sgn(n) == IF n > 0 THEN 1 ELSE IF n < 0 THEN -1 ELSE 0

RECURSIVE Gcd(_, _)
Gcd(x, y) == IF y = 0 THEN x ELSE Gcd(y, x % y)

Gcd3(a, b, c) == Gcd(Gcd(Abs(a), Abs(b)), Abs(c))

NaN == [p |-> 0, q |-> 0, d |-> 0]

Inf(s) == [p |-> s, q |-> 0, d |-> 0]

\* (p + q*sqrt 3)/d divided through by g > 0, with a positive denominator
Norm(p, q, d, g) ==
  IF d < 0 THEN [p |-> -(p \div g), q |-> -(q \div g), d |-> -(d \div g)]
  ELSE [p |-> p \div g, q |-> q \div g, d |-> d \div g]

\* (p + q*sqrt 3)/d in normal form; d # 0
Num(p, q, d) == Norm(p, q, d, Gcd3(p, q, d))

Rat(n, d) == Num(n, 0, d)

Int2Num(n) == [p |-> n, q |-> 0, d |-> 1]

Zero == [p |-> 0, q |-> 0, d |-> 1]

IsFinite(x) == x.d # 0

IsNaN(x) == x.d = 0 /\ x.p = 0

IsZero(x) == x.d # 0 /\ x.p = 0 /\ x.q = 0

\* p/q > T_k for integers p >= 0, q > 0, where T_k is the k-th complete
\* quotient of the continued fraction sqrt 3 = [1; 1, 2, 1, 2, ...]:
\* T_0 = sqrt 3, T_1 = [1; 2, 1, ...], T_2 = [2; 1, 2, ...], T_(k+2) = T_k.
\* Only quotients and remainders are formed, so nothing overflows.
RECURSIVE AboveSqrt3(_, _, _)
AboveSqrt3(p, q, k) ==
  IF p \div q # (IF k = 2 THEN 2 ELSE 1) THEN p \div q > (IF k = 2 THEN 2 ELSE 1)
  ELSE IF p % q = 0 THEN FALSE
  ELSE ~AboveSqrt3(q, p % q, IF k = 1 THEN 2 ELSE 1)

\* sign of p + q*sqrt 3 (sqrt 3 is irrational: the sum is 0 only at p = q = 0)
SignPQ(p, q) ==
  IF q = 0 THEN Sgn(p)
  ELSE IF p = 0 \/ Sgn(p) = Sgn(q) THEN Sgn(q)
  ELSE IF AboveSqrt3(Abs(p), Abs(q), 0) THEN Sgn(p) ELSE Sgn(q)

\* sign of a number; NaN has sign 0 and compares false with everything
Sign(x) == IF x.d = 0 THEN x.p ELSE SignPQ(x.p, x.q)

RNeg(x) == [p |-> -x.p, q |-> -x.q, d |-> x.d]

\* x + y where x or y is not finite
AddSpecial(x, y) ==
  IF IsNaN(x) \/ IsNaN(y) THEN NaN
  ELSE IF x.d = 0 /\ y.d = 0 THEN (IF x.p = y.p THEN x ELSE NaN)
  ELSE IF x.d = 0 THEN x ELSE y

\* x + y for finite x and y over the common denominator x.d * m = y.d * n
AddFinite(x, y, m, n) ==
  Num(x.p * m + y.p * n, x.q * m + y.q * n, x.d * m)

AddOver(x, y, g) == AddFinite(x, y, y.d \div g, x.d \div g)

RAdd(x, y) ==
  IF x.d = 0 \/ y.d = 0 THEN AddSpecial(x, y) ELSE AddOver(x, y, Gcd(x.d, y.d))

RSub(x, y) == RAdd(x, RNeg(y))

\* x * y where x or y is not finite
MulSpecial(x, y) ==
  IF IsNaN(x) \/ IsNaN(y) \/ IsZero(x) \/ IsZero(y) THEN NaN
  ELSE Inf(Sign(x) * Sign(y))

\* (xp + xq*sqrt 3) * (yp + yq*sqrt 3) / d
MulFinite(xp, xq, yp, yq, d) ==
  Num(xp * yp + 3 * xq * yq, xp * yq + xq * yp, d)

\* x * y for finite x and y, g1 and g2 cancelled crosswise beforehand
MulReduced(x, y, g1, g2) ==
  MulFinite(x.p \div g1, x.q \div g1, y.p \div g2, y.q \div g2,
            (x.d \div g2) * (y.d \div g1))

RMul(x, y) ==
  IF x.d = 0 \/ y.d = 0 THEN MulSpecial(x, y)
  ELSE MulReduced(x, y, Gcd3(x.p, x.q, y.d), Gcd3(y.p, y.q, x.d))

\* d / (g * (p + q*sqrt 3)) = d * (p - q*sqrt 3) / (g * n) for n = p^2 - 3*q^2,
\* with h = gcd(d, n) cancelled
InvOut(d, p, q, g, n, h) ==
  Num((d \div h) * p, -((d \div h) * q), g * (n \div h))

InvNorm(d, p, q, g, n) == InvOut(d, p, q, g, n, Gcd(d, Abs(n)))

InvConj(d, p, q, g) == InvNorm(d, p, q, g, p * p - 3 * q * q)

InvIrrational(x, g) == InvConj(x.d, x.p \div g, x.q \div g, g)

\* 1/x; 1/0 = +Infinity (the model has no negative zero)
RInv(x) ==
  IF x.d = 0 THEN (IF IsNaN(x) THEN NaN ELSE Zero)
  ELSE IF x.p = 0 /\ x.q = 0 THEN Inf(1)
  ELSE IF x.q = 0 THEN Num(x.d, 0, x.p)
  ELSE InvIrrational(x, Gcd(Abs(x.p), Abs(x.q)))

RDiv(x, y) ==
  IF IsFinite(x) /\ IsZero(y)
  THEN (IF IsZero(x) THEN NaN ELSE Inf(Sign(x)))
  ELSE RMul(x, RInv(y))

\* x < y (false when the difference is NaN)
RLt(x, y) == Sign(RSub(x, y)) < 0

RLe(x, y) == ~IsNaN(x) /\ ~IsNaN(y) /\ (x = y \/ RLt(x, y))

RGt(x, y) == RLt(y, x)

RAbs(x) == IF Sign(x) < 0 THEN RNeg(x) ELSE x

\* a comparison the exact arithmetic of the model cannot decide within the
\* integer range of TLC: evaluation stops with an error
Undecided == CHOOSE b \in {} : TRUE

Pow9 == 1000000000

\* x <= 1e-9
LeEps(x) ==
  IF IsNaN(x) THEN FALSE
  ELSE IF Sign(x) <= 0 THEN TRUE
  ELSE IF x.d = 0 THEN FALSE
  ELSE IF x.q = 0 THEN x.p <= x.d \div Pow9
  ELSE IF Abs(x.p) + 2 * Abs(x.q) <= (Pow9 - 1) \div x.d THEN FALSE
  ELSE Undecided

\* x > 1e-9
GtEps(x) == ~IsNaN(x) /\ ~LeEps(x)

\* x < 1e-9
LtEps(x) ==
  IF IsNaN(x) THEN FALSE
  ELSE IF Sign(x) <= 0 THEN TRUE
  ELSE IF x.d = 0 THEN FALSE
  ELSE IF x.q = 0 THEN x.p <= (x.d - 1) \div Pow9
  ELSE IF Abs(x.p) + 2 * Abs(x.q) <= (Pow9 - 1) \div x.d THEN FALSE
  ELSE Undecided

\* x < 1e-14 (and x < 1e-24): a finite model number p/d with p >= 1 is at
\* least 1/d > 1e-10
LtTiny(x) ==
  IF IsNaN(x) THEN FALSE
  ELSE IF Sign(x) <= 0 THEN TRUE
  ELSE IF x.d = 0 THEN FALSE
  ELSE IF x.q = 0 THEN FALSE
  ELSE IF Abs(x.p) + 2 * Abs(x.q) <= 2147483647 \div x.d THEN FALSE
  ELSE Undecided

\* x / 2
RHalf(x) == IF x.d = 0 THEN x ELSE Num(x.p, x.q, 2 * x.d)

\* Math.PI
PI == [p |-> 22, q |-> 0, d |-> 7]

TwoPI == RMul(Int2Num(2), PI)

\* Math.cos(Math.PI / 3) = 1/2 and Math.sin(Math.PI / 3) = sqrt(3)/2
CosPiOver3 == [p |-> 1, q |-> 0, d |-> 2]

SinPiOver3 == [p |-> 0, q |-> 1, d |-> 2]

(***************************************************************************)
(* math.js: vectors are sequences of numbers.                              *)
(***************************************************************************)
\* a function over 1..n as a sequence (TLC then holds its elements
\* as values instead of re-evaluating them at every access)
Tup(f) == f \o <<>>

vsub(a, b) == Tup([i \in 1..Len(a) |-> RSub(a[i], b[i])])

vscale(a, s) == Tup([i \in 1..Len(a) |-> RMul(a[i], s)])

RECURSIVE DotFrom(_, _, _)
DotFrom(a, b, i) ==
  IF i = 0 THEN Zero ELSE RAdd(DotFrom(a, b, i - 1), RMul(a[i], b[i]))

vdot(a, b) == DotFrom(a, b, Len(a))

vcross(a, b) ==
  << RSub(RMul(a[2], b[3]), RMul(a[3], b[2])),
     RSub(RMul(a[3], b[1]), RMul(a[1], b[3])),
     RSub(RMul(a[1], b[2]), RMul(a[2], b[1])) >>

vlerp(a, b, t) == Tup([i \in 1..Len(a) |-> RAdd(a[i], RMul(RSub(b[i], a[i]), t))])

IntVec(v) == Tup([i \in 1..Len(v) |-> Int2Num(v[i])])

(***************************************************************************)
(* lattice.js: lattice catalog and reciprocal transform.                   *)
(***************************************************************************)
Types2D == {"square", "rectangular", "hexagonal"}

Types3D == {"cubic", "fcc", "bcc"}

\* the 2D catalog for the lattice constants a and b
Lattice2DOf(type, a, b) ==
  CASE type = "square"      -> << <<a, Zero>>, <<Zero, a>> >>
    [] type = "rectangular" -> << <<a, Zero>>, <<Zero, b>> >>
    [] type = "hexagonal"   -> << <<a, Zero>>,
                                  <<RMul(a, CosPiOver3), RMul(a, SinPiOver3)>> >>

\* LATTICE_2D[type]() with the default constants a = 1, b = 1.5
LATTICE_2D(type) == Lattice2DOf(type, Int2Num(1), Rat(3, 2))

\* the 3D catalog for the lattice constant a, h = a / 2 and m = -a / 2
Lattice3DOf(type, a, h, m) ==
  CASE type = "cubic" -> << <<a, Zero, Zero>>, <<Zero, a, Zero>>, <<Zero, Zero, a>> >>
    [] type = "fcc"   -> << <<Zero, h, h>>, <<h, Zero, h>>, <<h, h, Zero>> >>
    [] type = "bcc"   -> << <<h, h, m>>, <<m, h, h>>, <<h, m, h>> >>

Lattice3DFor(type, a) == Lattice3DOf(type, a, RHalf(a), RHalf(RNeg(a)))

\* LATTICE_3D[type]() with the default constant a = 1
LATTICE_3D(type) == Lattice3DFor(type, Int2Num(1))

det2(a) == RSub(RMul(a[1][1], a[2][2]), RMul(a[1][2], a[2][1]))

Reciprocal2DBy_signslip(a1, a2, factor) ==
  << <<RMul(a2[2], factor), RMul(a2[1], factor)>>,
     <<RMul(RNeg(a1[2]), factor), RMul(a1[1], factor)>> >>

\* the two returned vectors for factor = 2 * Math.PI / det
Reciprocal2DBy(a1, a2, factor) ==
  << <<RMul(a2[2], factor), RMul(RNeg(a2[1]), factor)>>,
     <<RMul(RNeg(a1[2]), factor), RMul(a1[1], factor)>> >>

reciprocal2D(a1, a2) == Reciprocal2DBy(a1, a2, RDiv(TwoPI, det2(<<a1, a2>>)))

\* the three returned vectors: the cross products scaled by factor
Reciprocal3DScaled(c1, c2, c3, factor) ==
  << vscale(c1, factor), vscale(c2, factor), vscale(c3, factor) >>

\* for a2xa3, a3xa1, a1xa2: vol = vdot(a1, a2xa3), factor = 2 * Math.PI / vol
Reciprocal3DBy(a1, a2xa3, a3xa1, a1xa2) ==
  Reciprocal3DScaled(a2xa3, a3xa1, a1xa2, RDiv(TwoPI, vdot(a1, a2xa3)))

reciprocal3D_orderslip(a1, a2, a3) ==
  Reciprocal3DBy(a1, vcross(a2, a3), vcross(a1, a3), vcross(a1, a2))

reciprocal3D(a1, a2, a3) ==
  Reciprocal3DBy(a1, vcross(a2, a3), vcross(a3, a1), vcross(a1, a2))

(***************************************************************************)
(* Array.prototype.sort is stable: the element at index i moves to the     *)
(* position given by the number of elements that sort before it.  lt[i][j] *)
(* tells whether the comparator is negative for (s[i], s[j]).              *)
(***************************************************************************)
SortByRank(s, pos) == Tup([r \in 1..Len(s) |-> s[CHOOSE i \in 1..Len(s) : pos[i] = r]])

StableSort(s, lt) ==
  SortByRank(s, Tup([i \in 1..Len(s) |->
    1 + Cardinality({j \in 1..Len(s) : lt[j][i] \/ (j < i /\ ~lt[i][j])})]))

\* a sort that leaves the list in generation order
SortBySquares_unsorted(points, sq) == points

\* the sort by vlength for the squared lengths sq: the square root is
\* increasing, so the comparator has the sign of |a|^2 - |b|^2
SortBySquares(points, sq) ==
  StableSort(points, [i \in 1..Len(points) |-> [j \in 1..Len(points) |-> RLt(sq[i], sq[j])]])

\* points.sort((a, b) => vlength(a) - vlength(b))
SortByLength(points) ==
  SortBySquares(points, Tup([i \in 1..Len(points) |-> vdot(points[i], points[i])]))

\* the index pairs (h, k) in the order of the two nested loops
IndexPairs(maxN) ==
  Tup([m \in 1..((2 * maxN + 1) * (2 * maxN + 1)) |->
        <<((m - 1) \div (2 * maxN + 1)) - maxN, ((m - 1) % (2 * maxN + 1)) - maxN>>])

\* a loop that does not skip the zero index
SkipAt_keep(all, z) == all

\* the list without the entry at position z
SkipAt(all, z) == Tup([m \in 1..(Len(all) - 1) |-> all[IF m < z THEN m ELSE m + 1]])

\* "if (h === 0 && k === 0) continue": the list without the zero index
SkipOrigin(all, zero) == SkipAt(all, CHOOSE m \in 1..Len(all) : all[m] = zero)

\* G = h * b1 + k * b2
Combine2(h, k, b1, b2) ==
  << RAdd(RMul(h, b1[1]), RMul(k, b2[1])), RAdd(RMul(h, b1[2]), RMul(k, b2[2])) >>

PointsOf2D(hk, b1, b2) ==
  Tup([m \in 1..Len(hk) |-> Combine2(Int2Num(hk[m][1]), Int2Num(hk[m][2]), b1, b2)])

generateReciprocalPoints2D(b1, b2, maxN) ==
  SortByLength(PointsOf2D(SkipOrigin(IndexPairs(maxN), <<0, 0>>), b1, b2))

(***************************************************************************)
(* math.js: sortPointsCCW and clipPolygonByPlane2D.                        *)
(***************************************************************************)
\* Math.atan2(y, x) lies in (-pi, pi]; the sector orders the four ranges
\* (-pi, 0), {0}, (0, pi), {pi}, from the signs sx and sy of x and y
SectorOf(sx, sy) ==
  IF sy < 0 THEN 0
  ELSE IF sy > 0 THEN 2
  ELSE IF sx >= 0 THEN 1 ELSE 3

Sector(x, y) == SectorOf(Sign(x), Sign(y))

AngleLessIn(x1, y1, x2, y2, s1, s2) ==
  IF s1 # s2 THEN s1 < s2
  ELSE IF s1 \in {1, 3} THEN FALSE
  ELSE Sign(RSub(RMul(x1, y2), RMul(y1, x2))) > 0

\* Math.atan2(y1, x1) - Math.atan2(y2, x2) < 0
AngleLess(x1, y1, x2, y2) == AngleLessIn(x1, y1, x2, y2, Sector(x1, y1), Sector(x2, y2))

\* the sort by angle of the points s with in-plane coordinates x, y
SortByAngle(s, x, y) ==
  StableSort(s, [i \in 1..Len(s) |-> [j \in 1..Len(s) |->
                   AngleLess(x[i], y[i], x[j], y[j])]])

RECURSIVE SumCoord(_, _, _)
SumCoord(points, c, i) ==
  IF i = 0 THEN Zero ELSE RAdd(SumCoord(points, c, i - 1), points[i][c])

\* points.reduce(...) / points.length for the coordinate c
MeanCoord(points, c) == RDiv(SumCoord(points, c, Len(points)), Int2Num(Len(points)))

SortAround(points, cx, cy) ==
  SortByAngle(points,
              Tup([i \in 1..Len(points) |-> RSub(points[i][1], cx)]),
              Tup([i \in 1..Len(points) |-> RSub(points[i][2], cy)]))

sortPointsCCW(points) ==
  IF Len(points) <= 2 THEN points
  ELSE SortAround(points, MeanCoord(points, 1), MeanCoord(points, 2))

ClipEmit_noexit(current, inter, dc, dn) ==
  IF LeEps(dc) THEN <<current>>
  ELSE IF LeEps(dn) THEN <<inter>> ELSE <<>>

\* a loop that inserts the intersection for every edge that starts outside
ClipEmit_enter(current, inter, dc, dn) ==
  IF LeEps(dc)
  THEN IF GtEps(dn) THEN <<current, inter>> ELSE <<current>>
  ELSE <<inter>>

\* a loop that keeps the vertices strictly inside only
ClipEmit_strict(current, inter, dc, dn) ==
  IF Sign(dc) < 0
  THEN IF GtEps(dn) THEN <<current, inter>> ELSE <<current>>
  ELSE IF LeEps(dn) THEN <<inter>> ELSE <<>>

\* what the edge from current appends to output; inter is the intersection
ClipEmit(current, inter, dc, dn) ==
  IF LeEps(dc)
  THEN IF GtEps(dn) THEN <<current, inter>> ELSE <<current>>
  ELSE IF LeEps(dn) THEN <<inter>> ELSE <<>>

\* t = dc / (dc - dn) and vlerp(current, next, t)
ClipSigned(current, next, dc, dn) ==
  ClipEmit(current, vlerp(current, next, RDiv(dc, RSub(dc, dn))), dc, dn)

ClipSegment(current, next, normal, d) ==
  ClipSigned(current, next, RSub(vdot(normal, current), d), RSub(vdot(normal, next), d))

\* one iteration of the loop of clipPolygonByPlane2D: what edge i appends
ClipEdge(vertices, normal, d, i) ==
  ClipSegment(vertices[i], vertices[(i % Len(vertices)) + 1], normal, d)

RECURSIVE ClipUpTo(_, _, _, _)
ClipUpTo(vertices, normal, d, i) ==
  IF i = 0 THEN <<>>
  ELSE ClipUpTo(vertices, normal, d, i - 1) \o ClipEdge(vertices, normal, d, i)

clipPolygonByPlane2D(vertices, normal, d) ==
  IF Len(vertices) = 0 THEN <<>>
  ELSE ClipUpTo(vertices, normal, d, Len(vertices))

(***************************************************************************)
(* geometry.js                                                             *)
(***************************************************************************)
RECURSIVE Shoelace(_, _)
Shoelace(vertices, i) ==
  IF i = 0 THEN Zero
  ELSE RSub(RAdd(Shoelace(vertices, i - 1),
                 RMul(vertices[i][1], vertices[(i % Len(vertices)) + 1][2])),
            RMul(vertices[(i % Len(vertices)) + 1][1], vertices[i][2]))

polygonArea(vertices) == RHalf(RAbs(Shoelace(vertices, Len(vertices))))

(***************************************************************************)
(* brillouin.js (second half of lattice.js): 2D zones.                     *)
(***************************************************************************)
SeedR2D == 100

SeedOf(R) ==
  << IntVec(<<-R, -R>>), IntVec(<<R, -R>>), IntVec(<<R, R>>), IntVec(<<-R, R>>) >>

SeedSquare == SeedOf(SeedR2D)

\* an offset on the far side of the origin
PlaneD_negated(G) == RNeg(RHalf(vdot(G, G)))

PlaneD_full(G) == vdot(G, G)

\* d = vdot(G, G) / 2
PlaneD(G) == RHalf(vdot(G, G))

\* the body of the loop of computeFirstBZ2D for the point G
ClipByBragg2D(polygon, G) == clipPolygonByPlane2D(polygon, <<G[1], G[2]>>, PlaneD(G))

RECURSIVE FirstBZLoop(_, _, _)
\* "if (polygon.length < 3) break" after the clip by the plane of pts[i]
FirstBZBreak(clipped, pts, i) ==
  IF Len(clipped) < 3 THEN clipped ELSE FirstBZLoop(clipped, pts, i + 1)

FirstBZLoop(polygon, pts, i) ==
  IF i > Len(pts) THEN polygon
  ELSE FirstBZBreak(ClipByBragg2D(polygon, pts[i]), pts, i)

computeFirstBZ2D(reciprocalPoints) ==
  sortPointsCCW(FirstBZLoop(SeedSquare, reciprocalPoints, 1))

\* the larger of two numbers
RMax(A, B) == IF RLt(A, B) THEN B ELSE A

\* Math.abs(dist_i - dist_j) < 1e-9 for dist = vlength(G) / 2, from the
\* squared lengths A and B: | sqrt A - sqrt B | = |A - B| / (sqrt A + sqrt B)
\* and sqrt A + sqrt B <= 2 * (1 + max(A, B)), so a difference of the squares
\* of at least 4e-9 * (1 + max) separates the distances
DistClose(A, B) ==
  IF A = B THEN TRUE
  ELSE IF ~LtEps(RDiv(RAbs(RSub(A, B)), RMul(Int2Num(4), RAdd(Int2Num(1), RMax(A, B)))))
  THEN FALSE
  ELSE Undecided

\* the shell number of every plane, from the squared lengths in sorted order
ShellsOfSquares(sq) ==
  Tup([i \in 1..Len(sq) |->
         1 + Cardinality({j \in 2..i : ~DistClose(sq[j], sq[j - 1])})])

\* planes.sort((a, b) => a.dist - b.dist) and the grouping loop: the shell
\* number of every plane of the sorted list
ShellOf(sorted) ==
  ShellsOfSquares(Tup([i \in 1..Len(sorted) |-> vdot(sorted[i], sorted[i])]))

TakeShells(sorted, shell, n) ==
  SubSeq(sorted, 1, Cardinality({i \in 1..Len(sorted) : shell[i] <= n}))

FirstShells(sorted, n) == TakeShells(sorted, ShellOf(sorted), n)

\* groups.slice(0, n) flattened: the planes the clip loop visits, in order
UsedPlanes(reciprocalPoints, n) == FirstShells(SortByLength(reciprocalPoints), n)

RECURSIVE AccumulatedLoop(_, _, _)
\* "if (polygon.length < 3) return []" after the clip by the plane of pts[i]
AccumulatedReturn(clipped, pts, i) ==
  IF Len(clipped) < 3 THEN <<>> ELSE AccumulatedLoop(clipped, pts, i + 1)

AccumulatedLoop(polygon, pts, i) ==
  IF i > Len(pts) THEN sortPointsCCW(polygon)
  ELSE AccumulatedReturn(ClipByBragg2D(polygon, pts[i]), pts, i)

computeAccumulatedBZ2D(reciprocalPoints, n) ==
  AccumulatedLoop(SeedSquare, UsedPlanes(reciprocalPoints, n), 1)

\* centroid(poly) of computeZoneDifference2D: the mean of the vertices
centroid(poly) == << MeanCoord(poly, 1), MeanCoord(poly, 2) >>

\* the test of the ray-casting loop for the edge from (xj, yj) to (xi, yi)
RayCrossesEdge(pt, xi, yi, xj, yj) ==
  /\ RGt(yi, pt[2]) # RGt(yj, pt[2])
  /\ RLt(pt[1], RAdd(RDiv(RMul(RSub(xj, xi), RSub(pt[2], yi)), RSub(yj, yi)), xi))

RayCrossesFrom(pt, poly, i, j) ==
  RayCrossesEdge(pt, poly[i][1], poly[i][2], poly[j][1], poly[j][2])

\* the ray-casting test of one edge (poly[j], poly[i])
RayCrosses(pt, poly, i) ==
  RayCrossesFrom(pt, poly, i, IF i = 1 THEN Len(poly) ELSE i - 1)

isInsidePolygon(pt, poly) ==
  Cardinality({i \in 1..Len(poly) : RayCrosses(pt, poly, i)}) % 2 = 1

MaxFragments == 500

\* "if (pos.length >= 3) ...; if (neg.length >= 3) ..."
KeepPieces(pos, neg) ==
  (IF Len(pos) >= 3 THEN <<pos>> ELSE <<>>) \o (IF Len(neg) >= 3 THEN <<neg>> ELSE <<>>)

\* the two sides of a fragment cut by the plane (normal, d)
SplitOne(frag, normal, d) ==
  KeepPieces(clipPolygonByPlane2D(frag, normal, d),
             clipPolygonByPlane2D(frag, <<RNeg(normal[1]), RNeg(normal[2])>>, RNeg(d)))

\* the fragments of one pass of the subdivision loop
RECURSIVE SplitAll(_, _, _)
SplitAll(fragments, G, k) ==
  IF k = 0 THEN <<>>
  ELSE SplitAll(fragments, G, k - 1) \o SplitOne(fragments[k], <<G[1], G[2]>>, PlaneD(G))

RECURSIVE Subdivide(_, _, _)
\* "if (fragments.length > 500) break" after the pass for planes[i]
SubdivideBreak(newFragments, planes, i) ==
  IF Len(newFragments) > MaxFragments THEN newFragments
  ELSE Subdivide(newFragments, planes, i + 1)

Subdivide(fragments, planes, i) ==
  IF i > Len(planes) THEN fragments
  ELSE SubdivideBreak(SplitAll(fragments, planes[i], Len(fragments)), planes, i)

RECURSIVE KeepOutside(_, _, _)
KeepOutside(fragments, innerPolygon, k) ==
  IF k = 0 THEN <<>>
  ELSE KeepOutside(fragments, innerPolygon, k - 1)
         \o (IF ~isInsidePolygon(centroid(fragments[k]), innerPolygon)
             THEN <<sortPointsCCW(fragments[k])>> ELSE <<>>)

KeepAllOutside(fragments, innerPolygon) ==
  KeepOutside(fragments, innerPolygon, Len(fragments))

computeZoneDifference2D(outerPolygon, innerPolygon, planes) ==
  IF Len(innerPolygon) < 3 THEN <<outerPolygon>>
  ELSE KeepAllOutside(Subdivide(<<outerPolygon>>, planes, 1), innerPolygon)

\* the end of computeNthBZ2D for n > 1
DifferenceOrEmpty(accumulatedN, accumulatedNm1, reciprocalPoints) ==
  IF Len(accumulatedN) = 0 THEN <<>>
  ELSE computeZoneDifference2D(accumulatedN, accumulatedNm1, reciprocalPoints)

computeNthBZ2D(reciprocalPoints, n) ==
  IF n = 1 THEN <<computeFirstBZ2D(reciprocalPoints)>>
  ELSE DifferenceOrEmpty(computeAccumulatedBZ2D(reciprocalPoints, n),
                         computeAccumulatedBZ2D(reciprocalPoints, n - 1),
                         reciprocalPoints)

\* getZoneNumber(k) of computeNthBZ2D
getZoneNumber(reciprocalPoints, k) ==
  1 + Cardinality({i \in 1..Len(reciprocalPoints) :
        GtEps(RSub(vdot(reciprocalPoints[i], k), PlaneD(reciprocalPoints[i])))})

(***************************************************************************)
(* brillouin.js (second half of lattice.js): the 1st zone in 3D.           *)
(*                                                                         *)
(* A face is [vertices, normal].  The unit normal vnormalize(G) of a cap   *)
(* face needs a square root, so the field normal holds a vector of the     *)
(* same direction (the zero vector where vnormalize returns it); the only  *)
(* reader of a normal, sortVertices3DCCW, is translated accordingly.       *)
(***************************************************************************)
\* the index triples (h, k, l) in the order of the three nested loops
IndexTriplesOf(maxN, w) ==
  Tup([m \in 1..(w * w * w) |->
         << ((m - 1) \div (w * w)) - maxN,
            (((m - 1) \div w) % w) - maxN,
            ((m - 1) % w) - maxN >>])

IndexTriples(maxN) == IndexTriplesOf(maxN, 2 * maxN + 1)

\* G = h * b1 + k * b2 + l * b3
Combine3(h, k, l, b1, b2, b3) ==
  Tup([c \in 1..3 |-> RAdd(RAdd(RMul(h, b1[c]), RMul(k, b2[c])), RMul(l, b3[c]))])

PointsOf3D(hkl, b1, b2, b3) ==
  Tup([m \in 1..Len(hkl) |->
         Combine3(Int2Num(hkl[m][1]), Int2Num(hkl[m][2]), Int2Num(hkl[m][3]), b1, b2, b3)])

generateReciprocalPoints3D(b1, b2, b3, maxN) ==
  SortByLength(PointsOf3D(SkipOrigin(IndexTriples(maxN), <<0, 0, 0>>), b1, b2, b3))

\* vnormalize(a), up to its positive length: a itself, or the zero vector
\* when vlength(a) < 1e-12
NormalDir(a) ==
  IF LtTiny(vdot(a, a)) THEN Tup([i \in 1..Len(a) |-> Zero]) ELSE a

Lcm(a, b) == (a \div Gcd(a, b)) * b

PrimitiveBy(n1, n2, n3, g) ==
  IF g = 0 THEN <<Zero, Zero, Zero>>
  ELSE <<Int2Num(n1 \div g), Int2Num(n2 \div g), Int2Num(n3 \div g)>>

PrimitiveOf(n1, n2, n3) == PrimitiveBy(n1, n2, n3, Gcd3(n1, n2, n3))

PrimitiveOver(a, l) ==
  PrimitiveOf(a[1].p * (l \div a[1].d), a[2].p * (l \div a[2].d), a[3].p * (l \div a[3].d))

\* a rational vector divided by the positive content of its components
\* (left alone when a component has a sqrt 3 part or is not finite)
Primitive(a) ==
  IF \E i \in 1..3 : a[i].q # 0 \/ a[i].d = 0 THEN a
  ELSE PrimitiveOver(a, Lcm(Lcm(a[1].d, a[2].d), a[3].d))

SeedR3D == 50

createCubeFaces(R) ==
  << [vertices |-> <<IntVec(<<R, -R, -R>>), IntVec(<<R, R, -R>>), IntVec(<<R, R, R>>), IntVec(<<R, -R, R>>)>>,
      normal |-> IntVec(<<1, 0, 0>>)],
     [vertices |-> <<IntVec(<<-R, -R, -R>>), IntVec(<<-R, -R, R>>), IntVec(<<-R, R, R>>), IntVec(<<-R, R, -R>>)>>,
      normal |-> IntVec(<<-1, 0, 0>>)],
     [vertices |-> <<IntVec(<<-R, R, -R>>), IntVec(<<-R, R, R>>), IntVec(<<R, R, R>>), IntVec(<<R, R, -R>>)>>,
      normal |-> IntVec(<<0, 1, 0>>)],
     [vertices |-> <<IntVec(<<-R, -R, -R>>), IntVec(<<R, -R, -R>>), IntVec(<<R, -R, R>>), IntVec(<<-R, -R, R>>)>>,
      normal |-> IntVec(<<0, -1, 0>>)],
     [vertices |-> <<IntVec(<<-R, -R, R>>), IntVec(<<R, -R, R>>), IntVec(<<R, R, R>>), IntVec(<<-R, R, R>>)>>,
      normal |-> IntVec(<<0, 0, 1>>)],
     [vertices |-> <<IntVec(<<-R, -R, -R>>), IntVec(<<-R, R, -R>>), IntVec(<<R, R, -R>>), IntVec(<<R, -R, -R>>)>>,
      normal |-> IntVec(<<0, 0, -1>>)] >>

\* dx * dx + dy * dy + dz * dz for the difference e
SquaredNorm(e) == vdot(e, e)

Dist2(a, b) == SquaredNorm(vsub(a, b))

\* "if (!isDup) unique.push(vert)"
AddUnique(unique, vert) ==
  IF \E m \in 1..Len(unique) : LtTiny(Dist2(vert, unique[m])) THEN unique
  ELSE Append(unique, vert)

\* the "Remove duplicate vertices" loop of sortVertices3DCCW
RECURSIVE Unique3D(_, _)
Unique3D(vertices, k) ==
  IF k = 0 THEN <<>> ELSE AddUnique(Unique3D(vertices, k - 1), vertices[k])

\* The in-plane axes.  With L = |g|^2 for a vector g of the direction of the
\* unit normal, the axes u and v of the code are positive multiples of U and
\* V = g x U (u = U / (L * ulen), v = V / (|g| * L * ulen)), and the order of
\* the angles atan2(da.v, da.u) is the order of atan2(da.V, da.U).  ulen^2 is
\* 1 - normal[0]^2 > 0.19 in the first branch and 1 - normal[1]^2 >= 0.81 in
\* the second (1 for the zero normal, which takes the first branch), so the
\* test "ulen < 1e-12" never holds.
AxisU(g, L) ==
  IF IsZero(L) THEN IntVec(<<1, 0, 0>>)
  ELSE IF RLt(RMul(Int2Num(100), RMul(g[1], g[1])), RMul(Int2Num(81), L))
  THEN << RSub(L, RMul(g[1], g[1])), RNeg(RMul(g[1], g[2])), RNeg(RMul(g[1], g[3])) >>
  ELSE << RNeg(RMul(g[2], g[1])), RSub(L, RMul(g[2], g[2])), RNeg(RMul(g[2], g[3])) >>

\* "Project and sort": the sort by the angle of (a - centroid) in the plane
SortProjected(unique, c, U, V) ==
  SortByAngle(unique,
              Tup([i \in 1..Len(unique) |-> vdot(vsub(unique[i], c), U)]),
              Tup([i \in 1..Len(unique) |-> vdot(vsub(unique[i], c), V)]))

SortInPlane(unique, c, g, U) == SortProjected(unique, c, U, vcross(g, U))

SortUnique(unique, c, g) ==
  IF Len(unique) < 3 THEN unique ELSE SortInPlane(unique, c, g, AxisU(g, vdot(g, g)))

\* sortVertices3DCCW(vertices, normal) for normal = dir / |dir|
sortVertices3DCCW(vertices, dir) ==
  IF Len(vertices) <= 2 THEN vertices
  ELSE SortUnique(Unique3D(vertices, Len(vertices)),
                  <<MeanCoord(vertices, 1), MeanCoord(vertices, 2), MeanCoord(vertices, 3)>>,
                  Primitive(dir))

\* what the edge from curr appends to clipped and to capVertices
ClipEmit3D(curr, inter, dc, dn) ==
  IF LeEps(dc)
  THEN IF GtEps(dn) THEN [clipped |-> <<curr, inter>>, cap |-> <<inter>>]
       ELSE [clipped |-> <<curr>>, cap |-> <<>>]
  ELSE IF LeEps(dn) THEN [clipped |-> <<inter>>, cap |-> <<inter>>]
       ELSE [clipped |-> <<>>, cap |-> <<>>]

\* t = dc / (dc - dn) and inter = curr.map((v, j) => v + (next[j] - v) * t)
ClipSigned3D(curr, next, dc, dn) ==
  ClipEmit3D(curr, vlerp(curr, next, RDiv(dc, RSub(dc, dn))), dc, dn)

ClipSegment3D(curr, next, G, d) ==
  ClipSigned3D(curr, next, RSub(vdot(G, curr), d), RSub(vdot(G, next), d))

\* one iteration of the inner loop of clipPolyhedronByPlane: what edge i of
\* the face appends to clipped and to capVertices
ClipEdge3D(verts, G, d, i) ==
  ClipSegment3D(verts[i], verts[(i % Len(verts)) + 1], G, d)

JoinClipped(before, edge) ==
  [clipped |-> before.clipped \o edge.clipped, cap |-> before.cap \o edge.cap]

RECURSIVE ClipFace(_, _, _, _)
ClipFace(verts, G, d, i) ==
  IF i = 0 THEN [clipped |-> <<>>, cap |-> <<>>]
  ELSE JoinClipped(ClipFace(verts, G, d, i - 1), ClipEdge3D(verts, G, d, i))

\* "if (clipped.length >= 3) newFaces.push(...)" for the clip r of a face
AddFace(before, normal, r) ==
  [newFaces |->
     IF Len(r.clipped) >= 3
     THEN Append(before.newFaces, [vertices |-> r.clipped, normal |-> normal])
     ELSE before.newFaces,
   capVertices |-> before.capVertices \o r.cap]

\* the loop over the faces: the faces kept and the cap vertices collected
RECURSIVE ClipFaces(_, _, _, _)
ClipFaces(faces, G, d, k) ==
  IF k = 0 THEN [newFaces |-> <<>>, capVertices |-> <<>>]
  ELSE AddFace(ClipFaces(faces, G, d, k - 1), faces[k].normal,
               ClipFace(faces[k].vertices, G, d, Len(faces[k].vertices)))

\* a cap that is pushed only with four or more vertices
AddCap_quads(newFaces, sorted, capNormal) ==
  IF Len(sorted) >= 4
  THEN Append(newFaces, [vertices |-> sorted, normal |-> capNormal])
  ELSE newFaces

\* "if (sorted.length >= 3) newFaces.push(...)"
AddCap(newFaces, sorted, capNormal) ==
  IF Len(sorted) >= 3
  THEN Append(newFaces, [vertices |-> sorted, normal |-> capNormal])
  ELSE newFaces

\* "Add cap face if there are enough intersection vertices"
WithCap(r, capNormal) ==
  IF Len(r.capVertices) >= 3
  THEN AddCap(r.newFaces, sortVertices3DCCW(r.capVertices, capNormal), capNormal)
  ELSE r.newFaces

clipPolyhedronByPlane_nocap(faces, G, d) ==
  ClipFaces(faces, G, d, Len(faces)).newFaces

clipPolyhedronByPlane(faces, G, d) ==
  WithCap(ClipFaces(faces, G, d, Len(faces)), NormalDir(G))

\* the body of the loop of computeFirstBZ3D for the plane of G
ClipByBragg3D(faces, G) == clipPolyhedronByPlane(faces, G, PlaneD(G))

RECURSIVE FirstBZLoop3D(_, _, _)
\* "if (faces.length === 0) break" after the clip by the plane of pts[i]
FirstBZBreak3D(clippedFaces, pts, i) ==
  IF Len(clippedFaces) = 0 THEN clippedFaces
  ELSE FirstBZLoop3D(clippedFaces, pts, i + 1)

FirstBZLoop3D(faces, pts, i) ==
  IF i > Len(pts) THEN faces
  ELSE FirstBZBreak3D(ClipByBragg3D(faces, pts[i]), pts, i)

computeFirstBZ3D(reciprocalPoints) ==
  FirstBZLoop3D(createCubeFaces(SeedR3D), reciprocalPoints, 1)

(***************************************************************************)
(* Square roots, where the root is a number of the model: of r^2 and of    *)
(* 3 * r^2 for a rational r.                                               *)
(***************************************************************************)
RECURSIVE ISqrtIn(_, _, _)
ISqrtIn(n, lo, hi) ==
  IF lo >= hi THEN lo
  ELSE IF (lo + hi + 1) \div 2 <= n \div ((lo + hi + 1) \div 2)
  THEN ISqrtIn(n, (lo + hi + 1) \div 2, hi)
  ELSE ISqrtIn(n, lo, ((lo + hi + 1) \div 2) - 1)

\* floor of the square root of n >= 0
ISqrt(n) == ISqrtIn(n, 0, IF n < 46340 THEN n ELSE 46340)

IsSquareInt(n) == ISqrt(n) * ISqrt(n) = n

\* Math.sqrt(x)
RSqrt(x) ==
  IF x.d = 0 THEN (IF x.p = 1 THEN x ELSE NaN)
  ELSE IF Sign(x) < 0 THEN NaN
  ELSE IF x.q # 0 THEN Undecided
  ELSE IF IsSquareInt(x.p) /\ IsSquareInt(x.d) THEN Num(ISqrt(x.p), 0, ISqrt(x.d))
  ELSE IF x.p % 3 = 0 /\ IsSquareInt(x.p \div 3) /\ IsSquareInt(x.d)
       THEN Num(0, ISqrt(x.p \div 3), ISqrt(x.d))
  ELSE IF x.d % 3 = 0 /\ IsSquareInt(x.p) /\ IsSquareInt(x.d \div 3)
       THEN Num(0, ISqrt(x.p), 3 * ISqrt(x.d \div 3))
  ELSE Undecided

vlength(a) == RSqrt(vdot(a, a))

RECURSIVE FanArea(_, _)
FanArea(vertices, i) ==
  IF i < 2 THEN Zero
  ELSE RAdd(FanArea(vertices, i - 1),
            RHalf(vlength(vcross(vsub(vertices[i], vertices[1]),
                                 vsub(vertices[i + 1], vertices[1])))))


(***************************************************************************)
(* Bragg plane records and pointInPolyhedron (geometry.js).  As for the    *)
(* faces, the field normal of a record holds a vector of the direction of  *)
(* the unit vector vnormalize(G); a scalar product with the unit vector is *)
(* compared through squares, without the square root.                      *)
(***************************************************************************)
\* { normal: vnormalize(G), d: vdot(G, G) / 2, G }
BraggPlaneOf(G) == [normal |-> NormalDir(G), d |-> PlaneD(G), G |-> G]

computeBraggPlanes3D(reciprocalPoints) ==
  Tup([i \in 1..Len(reciprocalPoints) |-> BraggPlaneOf(reciprocalPoints[i])])

\* { normal, point, d, G } of math.js
bisectorPlane(G) ==
  [normal |-> NormalDir(G), point |-> vscale(G, Rat(1, 2)), d |-> PlaneD(G), G |-> G]

\* s / sqrt(N) > d + 1e-9 for s > 0, N > 0, d > 0, with q = (s / d)^2 / N and
\* q1 = (s / (d + 1))^2 / N: false when q <= 1, true when q1 >= 1
ExceedsBySquares(q, q1) ==
  IF RLe(q, Int2Num(1)) THEN FALSE
  ELSE IF RLe(Int2Num(1), q1) THEN TRUE
  ELSE Undecided

SquareOver(r, N) == RMul(r, RDiv(r, N))

\* s / sqrt(N) > d + 1e-9, where s / sqrt(N) is 0 for N = 0
ExceedsFrom(s, N, d) ==
  IF IsZero(N) \/ Sign(s) <= 0 THEN GtEps(RNeg(d))
  ELSE IF Sign(d) <= 0 THEN Undecided
  ELSE ExceedsBySquares(SquareOver(RDiv(s, d), N),
                        SquareOver(RDiv(s, RAdd(d, Int2Num(1))), N))

\* the flipped test "vdot(plane.normal, point) < plane.d + 1e-9"
OutsidePlane_flipped(pl, point) ==
  ~ExceedsFrom(vdot(pl.normal, point), vdot(pl.normal, pl.normal), pl.d)

\* "vdot(plane.normal, point) > plane.d + 1e-9"
OutsidePlane(pl, point) ==
  ExceedsFrom(vdot(pl.normal, point), vdot(pl.normal, pl.normal), pl.d)

pointInPolyhedron(point, planes) ==
  \A i \in 1..Len(planes) : ~OutsidePlane(planes[i], point)
faceArea3D(vertices) ==
  IF Len(vertices) < 3 THEN Zero ELSE FanArea(vertices, Len(vertices) - 1)

(***************************************************************************)
(* State.                                                                  *)
(***************************************************************************)
VARIABLES
  pc,        \* position of the computation under way
  basis,     \* real-space basis handed to the reciprocal transform
  recip,     \* reciprocal basis returned for basis (<<>> before the call)
  dual,      \* reciprocal2D applied to recip (<<>> before the call)
  lattice,   \* lattice type tag ("" when the basis is given directly)
  maxIndex,  \* index bound of the reciprocal points
  maxZone,   \* highest zone order asked for
  points,    \* reciprocalPoints, as returned by generateReciprocalPoints
  polygon,   \* the polygon of the clip loop of computeFirstBZ2D
  idx,       \* index into points of the next plane of a clip loop
  faces,     \* the face list of the clip loop of computeFirstBZ3D
  firstBZ,   \* result of computeFirstBZ2D / computeFirstBZ3D
  acc,       \* acc[n]: result of computeAccumulatedBZ2D(points, n)
  zones,     \* zones[n]: result of computeNthBZ2D(points, n)
  plane,     \* normal and d of a call of clipPolygonByPlane2D on polygon (<<>> if none)
  clipped,   \* what that call returned
  ui         \* the page of controls.js: state.mode, the options of #lattice-select and the
             \* pending zone timer (<<>> where only core functions run)

vars == <<pc, basis, recip, dual, lattice, maxIndex, maxZone, points,
          polygon, faces, idx, firstBZ, acc, zones, plane, clipped, ui>>

zoneVars == <<lattice, maxIndex, maxZone, points, polygon, faces, idx, firstBZ, acc, zones,
              plane, clipped>>

(***************************************************************************)
(* Reciprocal transform: the inputs are the catalog bases and all integer  *)
(* bases within the bounds (degenerate ones included).                     *)
(***************************************************************************)
Coords2 == (-MaxCoord)..MaxCoord

Coords3 == 0..MaxCoord3

Bases2D ==
  {LATTICE_2D(t) : t \in Types2D} \cup
  {<<IntVec(<<x1, y1>>), IntVec(<<x2, y2>>)>> :
      x1 \in Coords2, y1 \in Coords2, x2 \in Coords2, y2 \in Coords2}

Vecs3 == {IntVec(<<x, y, z>>) : x \in Coords3, y \in Coords3, z \in Coords3}

Bases3D ==
  {LATTICE_3D(t) : t \in Types3D} \cup
  {<<u, v, w>> : u \in Vecs3, v \in Vecs3, w \in Vecs3}

vol3(a) == vdot(a[1], vcross(a[2], a[3]))

NonDegenerate(a) ==
  IF Len(a) = 2 THEN Sign(det2(a)) # 0 ELSE Sign(vol3(a)) # 0

InitRecip ==
  /\ ui = <<>>
  /\ pc = "basis"
  /\ basis \in Bases2D \cup Bases3D
  /\ recip = <<>>
  /\ dual = <<>>
  /\ lattice = ""
  /\ maxIndex = 0
  /\ maxZone = 0
  /\ points = <<>>
  /\ polygon = <<>>
  /\ faces = <<>>
  /\ idx = 0
  /\ firstBZ = <<>>
  /\ acc = <<>>
  /\ zones = <<>>
  /\ plane = <<>>
  /\ clipped = <<>>

Reciprocal2D ==
  /\ pc = "basis"
  /\ Len(basis) = 2
  /\ recip' = reciprocal2D(basis[1], basis[2])
  /\ pc' = "reciprocal"
  /\ UNCHANGED <<ui, basis, dual, zoneVars>>

Reciprocal3D ==
  /\ pc = "basis"
  /\ Len(basis) = 3
  /\ recip' = reciprocal3D(basis[1], basis[2], basis[3])
  /\ pc' = "reciprocal"
  /\ UNCHANGED <<ui, basis, dual, zoneVars>>

\* reciprocal2D applied to its own output
ReciprocalAgain2D ==
  /\ pc = "reciprocal"
  /\ Len(recip) = 2
  /\ dual' = reciprocal2D(recip[1], recip[2])
  /\ pc' = "dual"
  /\ UNCHANGED <<ui, basis, recip, zoneVars>>

NextRecip == Reciprocal2D \/ Reciprocal3D \/ ReciprocalAgain2D

SpecRecip == InitRecip /\ [][NextRecip]_vars

(***************************************************************************)
(* 2D: lattice type -> basis -> reciprocal basis -> reciprocal points, as  *)
(* update2D (main.js) produces them, then computeFirstBZ2D on the points,  *)
(* one state per iteration of its loop.                                    *)
(***************************************************************************)
InitFirst2D ==
  /\ ui = <<>>
  /\ pc = "lattice2d"
  /\ lattice \in Types2D
  /\ maxIndex \in 1..MaxIndex2D
  /\ maxZone = 1
  /\ basis = <<>>
  /\ recip = <<>>
  /\ dual = <<>>
  /\ points = <<>>
  /\ polygon = <<>>
  /\ faces = <<>>
  /\ idx = 0
  /\ firstBZ = <<>>
  /\ acc = <<>>
  /\ zones = <<>>
  /\ plane = <<>>
  /\ clipped = <<>>

Generate2D ==
  /\ pc = "lattice2d"
  /\ lattice \in Types2D
  /\ basis' = LATTICE_2D(lattice)
  /\ recip' = reciprocal2D(basis'[1], basis'[2])
  /\ points' = generateReciprocalPoints2D(recip'[1], recip'[2], maxIndex)
  /\ pc' = "points2d"
  /\ UNCHANGED <<ui, dual, lattice, maxIndex, maxZone, polygon, faces, idx, firstBZ, acc, zones, plane, clipped>>

StartFirstBZ2D ==
  /\ pc = "points2d"
  /\ polygon' = SeedSquare
  /\ idx' = 1
  /\ pc' = "clip2d"
  /\ UNCHANGED <<ui, basis, recip, dual, lattice, maxIndex, maxZone, points, faces, firstBZ, acc, zones, plane, clipped>>

ClipStep2D ==
  /\ pc = "clip2d"
  /\ idx <= Len(points)
  /\ polygon' = ClipByBragg2D(polygon, points[idx])
  /\ idx' = IF Len(polygon') < 3 THEN Len(points) + 1 ELSE idx + 1
  /\ UNCHANGED <<ui, pc, basis, recip, dual, lattice, maxIndex, maxZone, points, faces, firstBZ, acc, zones, plane, clipped>>

FinishFirstBZ2D ==
  /\ pc = "clip2d"
  /\ idx > Len(points)
  /\ firstBZ' = sortPointsCCW(polygon)
  /\ pc' = "first2d"
  /\ UNCHANGED <<ui, basis, recip, dual, lattice, maxIndex, maxZone, points, polygon, faces, idx, acc, zones, plane, clipped>>

NextFirst2D ==
  \/ Generate2D
  \/ StartFirstBZ2D
  \/ ClipStep2D
  \/ FinishFirstBZ2D

SpecFirst2D == InitFirst2D /\ [][NextFirst2D]_vars

(***************************************************************************)
(* 2D zones: the calls computeAccumulatedBZ2D(points, n) and               *)
(* computeNthBZ2D(points, n) for n = 1, 2, ..., maxZone on the points of a *)
(* lattice.                                                                *)
(***************************************************************************)
InitZones2D ==
  /\ ui = <<>>
  /\ pc = "lattice2d"
  /\ lattice \in Types2D
  /\ maxIndex \in 1..MaxIndex2D
  /\ maxZone \in 1..MaxZone
  /\ basis = <<>>
  /\ recip = <<>>
  /\ dual = <<>>
  /\ points = <<>>
  /\ polygon = <<>>
  /\ faces = <<>>
  /\ idx = 0
  /\ firstBZ = <<>>
  /\ acc = <<>>
  /\ zones = <<>>
  /\ plane = <<>>
  /\ clipped = <<>>

\* computeAccumulatedBZ2D(points, n) for the next order n
Accumulated2D ==
  /\ pc \in {"points2d", "zones2d"}
  /\ Len(acc) < maxZone
  /\ acc' = Append(acc, computeAccumulatedBZ2D(points, Len(acc) + 1))
  /\ pc' = "zones2d"
  /\ UNCHANGED <<ui, basis, recip, dual, lattice, maxIndex, maxZone, points, polygon, faces, idx, firstBZ, zones, plane, clipped>>

\* computeNthBZ2D(points, n) for the next order n
NthBZ2D ==
  /\ pc \in {"points2d", "zones2d"}
  /\ Len(zones) < maxZone
  /\ zones' = Append(zones, computeNthBZ2D(points, Len(zones) + 1))
  /\ pc' = "zones2d"
  /\ UNCHANGED <<ui, basis, recip, dual, lattice, maxIndex, maxZone, points, polygon, faces, idx, firstBZ, acc, plane, clipped>>

NextZones2D ==
  \/ Generate2D
  \/ Accumulated2D
  \/ NthBZ2D

SpecZones2D == InitZones2D /\ [][NextZones2D]_vars

(***************************************************************************)
(* 3D: lattice type -> basis -> reciprocal basis -> reciprocal points      *)
(* (update3D, main.js), then computeFirstBZ3D, one state per iteration.    *)
(***************************************************************************)
Init3D ==
  /\ ui = <<>>
  /\ pc = "lattice3d"
  /\ lattice \in Types3D
  /\ maxIndex \in 1..MaxIndex3D
  /\ maxZone = 1
  /\ basis = <<>>
  /\ recip = <<>>
  /\ dual = <<>>
  /\ points = <<>>
  /\ polygon = <<>>
  /\ faces = <<>>
  /\ idx = 0
  /\ firstBZ = <<>>
  /\ acc = <<>>
  /\ zones = <<>>
  /\ plane = <<>>
  /\ clipped = <<>>

Generate3D ==
  /\ pc = "lattice3d"
  /\ lattice \in Types3D
  /\ basis' = LATTICE_3D(lattice)
  /\ recip' = reciprocal3D(basis'[1], basis'[2], basis'[3])
  /\ points' = generateReciprocalPoints3D(recip'[1], recip'[2], recip'[3], maxIndex)
  /\ pc' = "points3d"
  /\ UNCHANGED <<ui, dual, lattice, maxIndex, maxZone, polygon, faces, idx, firstBZ, acc, zones, plane, clipped>>

StartFirstBZ3D ==
  /\ pc = "points3d"
  /\ faces' = createCubeFaces(SeedR3D)
  /\ idx' = 1
  /\ pc' = "clip3d"
  /\ UNCHANGED <<ui, basis, recip, dual, lattice, maxIndex, maxZone, points, polygon, firstBZ, acc, zones, plane, clipped>>

ClipStep3D ==
  /\ pc = "clip3d"
  /\ idx <= Len(points)
  /\ faces' = ClipByBragg3D(faces, points[idx])
  /\ idx' = IF Len(faces') = 0 THEN Len(points) + 1 ELSE idx + 1
  /\ UNCHANGED <<ui, pc, basis, recip, dual, lattice, maxIndex, maxZone, points, polygon, firstBZ, acc, zones, plane, clipped>>

FinishFirstBZ3D ==
  /\ pc = "clip3d"
  /\ idx > Len(points)
  /\ firstBZ' = faces
  /\ pc' = "first3d"
  /\ UNCHANGED <<ui, basis, recip, dual, lattice, maxIndex, maxZone, points, polygon, faces, idx, acc, zones, plane, clipped>>

Next3D == Generate3D \/ StartFirstBZ3D \/ ClipStep3D \/ FinishFirstBZ3D

Spec3D == Init3D /\ [][Next3D]_vars

(***************************************************************************)
(* update2D / update3D (main.js) for any type tag of the two catalogs: a   *)
(* tag that the catalog of the current mode does not hold is reported      *)
(* (console.error) and the handler returns; otherwise the handler goes on  *)
(* as in the 2D and 3D specifications above.                               *)
(***************************************************************************)
InitUpdate ==
  /\ ui = <<>>
  /\ pc \in {"lattice2d", "lattice3d"}
  /\ lattice \in Types2D \cup Types3D
  /\ maxIndex \in 1..(IF pc = "lattice2d" THEN MaxIndex2D ELSE MaxIndex3D)
  /\ maxZone = 1
  /\ basis = <<>>
  /\ recip = <<>>
  /\ dual = <<>>
  /\ points = <<>>
  /\ polygon = <<>>
  /\ faces = <<>>
  /\ idx = 0
  /\ firstBZ = <<>>
  /\ acc = <<>>
  /\ zones = <<>>
  /\ plane = <<>>
  /\ clipped = <<>>

\* a handler that falls back to the first lattice of the catalog
UnknownType2D_fallback ==
  /\ pc = "lattice2d"
  /\ lattice \notin Types2D
  /\ basis' = LATTICE_2D("square")
  /\ recip' = reciprocal2D(basis'[1], basis'[2])
  /\ points' = generateReciprocalPoints2D(recip'[1], recip'[2], maxIndex)
  /\ pc' = "points2d"
  /\ UNCHANGED <<ui, dual, lattice, maxIndex, maxZone, polygon, faces, idx, firstBZ, acc, zones, plane, clipped>>

\* update2D: if (!latticeFn) { console.error(...); return; }
UnknownType2D ==
  /\ pc = "lattice2d"
  /\ lattice \notin Types2D
  /\ pc' = "unknown2d"
  /\ UNCHANGED <<ui, basis, recip, dual, zoneVars>>

\* update3D: if (!latticeFn) { console.error(...); return; }
UnknownType3D ==
  /\ pc = "lattice3d"
  /\ lattice \notin Types3D
  /\ pc' = "unknown3d"
  /\ UNCHANGED <<ui, basis, recip, dual, zoneVars>>

NextUpdate ==
  \/ UnknownType2D
  \/ UnknownType3D
  \/ Generate2D
  \/ StartFirstBZ2D
  \/ ClipStep2D
  \/ FinishFirstBZ2D
  \/ Generate3D
  \/ StartFirstBZ3D
  \/ ClipStep3D
  \/ FinishFirstBZ3D

SpecUpdate == InitUpdate /\ [][NextUpdate]_vars

(***************************************************************************)
(* Reciprocal points: generateReciprocalPoints2D / 3D on the reciprocal    *)
(* bases of the catalog and on integer bases (2D: all integer bases within *)
(* the bound, degenerate ones included; 3D: the lower-triangular bases     *)
(* with unit diagonal), for every maxIndex within the bounds.              *)
(***************************************************************************)
GenCoords == (-MaxGenCoord)..MaxGenCoord

GenBases2D ==
  {reciprocal2D(LATTICE_2D(t)[1], LATTICE_2D(t)[2]) : t \in Types2D} \cup
  {<<IntVec(<<x1, y1>>), IntVec(<<x2, y2>>)>> :
      x1 \in GenCoords, y1 \in GenCoords, x2 \in GenCoords, y2 \in GenCoords}

GenBases3D ==
  {reciprocal3D(LATTICE_3D(t)[1], LATTICE_3D(t)[2], LATTICE_3D(t)[3]) : t \in Types3D} \cup
  {<<IntVec(<<1, 0, 0>>), IntVec(<<x, 1, 0>>), IntVec(<<y, z, 1>>)>> :
      x \in 0..MaxShear, y \in 0..MaxShear, z \in 0..MaxShear}

InitPoints ==
  /\ ui = <<>>
  /\ pc = "recipbasis"
  /\ recip \in GenBases2D \cup GenBases3D
  /\ maxIndex \in 1..(IF Len(recip) = 2 THEN MaxIndex2D ELSE MaxIndex3D)
  /\ basis = <<>>
  /\ dual = <<>>
  /\ lattice = ""
  /\ maxZone = 0
  /\ points = <<>>
  /\ polygon = <<>>
  /\ faces = <<>>
  /\ idx = 0
  /\ firstBZ = <<>>
  /\ acc = <<>>
  /\ zones = <<>>
  /\ plane = <<>>
  /\ clipped = <<>>

Points2D ==
  /\ pc = "recipbasis"
  /\ Len(recip) = 2
  /\ points' = generateReciprocalPoints2D(recip[1], recip[2], maxIndex)
  /\ pc' = "generated"
  /\ UNCHANGED <<ui, basis, recip, dual, lattice, maxIndex, maxZone, polygon, faces, idx, firstBZ, acc, zones, plane, clipped>>

Points3D ==
  /\ pc = "recipbasis"
  /\ Len(recip) = 3
  /\ points' = generateReciprocalPoints3D(recip[1], recip[2], recip[3], maxIndex)
  /\ pc' = "generated"
  /\ UNCHANGED <<ui, basis, recip, dual, lattice, maxIndex, maxZone, polygon, faces, idx, firstBZ, acc, zones, plane, clipped>>

NextPoints == Points2D \/ Points3D

SpecPoints == InitPoints /\ [][NextPoints]_vars

(***************************************************************************)
(* clipPolygonByPlane2D on its own: the arguments are drawn from           *)
(*   - the empty polygon, the square of half-width 1 and every triangle    *)
(*     (any orientation, collinear ones included) on the integer grid;     *)
(*     with normals of components -1, 0, 1;                                *)
(*   - the triangles with x-coordinates 1e-9 and 2e-9 and y-coordinates 0  *)
(*     and 1, which lie around the tolerance of the membership test, with  *)
(*     the axis normals;                                                   *)
(*   - offsets d that are multiples of 1/2.                                *)
(***************************************************************************)
Triples(S) == {<<u, v, w>> : u \in S, v \in S, w \in S} \ {t \in S \X S \X S : t[1] = t[2] \/ t[2] = t[3] \/ t[1] = t[3]}

GridPoints == {IntVec(<<x, y>>) : x \in 0..MaxPoly, y \in 0..MaxPoly}

SliverPoints == {<<Rat(i, Pow9), Int2Num(y)>> : i \in 1..2, y \in 0..1}

GridPolygons == {<<>>, SeedOf(1)} \cup Triples(GridPoints)

ClipNormals == {IntVec(<<x, y>>) : x \in -1..1, y \in -1..1}

AxisNormals == {n \in ClipNormals : IsZero(n[1]) \/ IsZero(n[2])}

ClipOffsets == {Rat(k, 2) : k \in -2..2}

ClipArgs ==
  (GridPolygons \X [normal : ClipNormals, d : ClipOffsets]) \cup
  (Triples(SliverPoints) \X [normal : AxisNormals, d : ClipOffsets])

InitClip2D ==
  /\ ui = <<>>
  /\ pc = "clipargs"
  /\ \E args \in ClipArgs : polygon = args[1] /\ plane = args[2]
  /\ clipped = <<>>
  /\ basis = <<>>
  /\ recip = <<>>
  /\ dual = <<>>
  /\ lattice = ""
  /\ maxIndex = 0
  /\ maxZone = 0
  /\ points = <<>>
  /\ faces = <<>>
  /\ idx = 0
  /\ firstBZ = <<>>
  /\ acc = <<>>
  /\ zones = <<>>

Clip2D ==
  /\ pc = "clipargs"
  /\ clipped' = clipPolygonByPlane2D(polygon, plane.normal, plane.d)
  /\ pc' = "clipped2d"
  /\ UNCHANGED <<ui, basis, recip, dual, lattice, maxIndex, maxZone, points, polygon, faces, idx,
                 firstBZ, acc, zones, plane>>

NextClip2D == Clip2D

SpecClip2D == InitClip2D /\ [][NextClip2D]_vars

(***************************************************************************)
(* computeFirstBZ2D and computeFirstBZ3D called on a reordering of the     *)
(* list of reciprocal points: the list that generateReciprocalPoints2D /   *)
(* generateReciprocalPoints3D returns for a catalog lattice, rotated or    *)
(* with two of its entries exchanged, and in 2D also reversed (the         *)
(* reversed 3D lists lead to vertices whose exact coordinates exceed the   *)
(* integers of the model).                                                 *)
(***************************************************************************)
Rotated(s, k) == [i \in 1..Len(s) |-> s[((i + k - 1) % Len(s)) + 1]]

Reversed(s) == [i \in 1..Len(s) |-> s[Len(s) + 1 - i]]

Exchanged(s, i, j) ==
  [n \in 1..Len(s) |-> IF n = i THEN s[j] ELSE IF n = j THEN s[i] ELSE s[n]]

Smaller(a, b) == IF a < b THEN a ELSE b

\* the reorderings of s that move entries among its first n positions
Reorderings(s, n) ==
  {Rotated(s, k) : k \in 0..(Smaller(n, Len(s)) - 1)}
    \cup {Exchanged(s, ij[1], ij[2]) :
            ij \in (1..Smaller(n, Len(s))) \X (1..Smaller(n, Len(s)))}

ReciprocalOf(type) ==
  IF type \in Types2D
  THEN reciprocal2D(LATTICE_2D(type)[1], LATTICE_2D(type)[2])
  ELSE reciprocal3D(LATTICE_3D(type)[1], LATTICE_3D(type)[2], LATTICE_3D(type)[3])

\* the sorted list of points that the generator returns for a basis
GeneratedPoints(b, maxN) ==
  IF Len(b) = 2
  THEN generateReciprocalPoints2D(b[1], b[2], maxN)
  ELSE generateReciprocalPoints3D(b[1], b[2], b[3], maxN)

InitOrder ==
  /\ ui = <<>>
  /\ lattice \in Types2D \cup Types3D
  /\ pc = (IF lattice \in Types2D THEN "points2d" ELSE "points3d")
  /\ maxIndex \in 1..MaxOrderIndex
  /\ maxZone = 1
  /\ basis = (IF lattice \in Types2D THEN LATTICE_2D(lattice) ELSE LATTICE_3D(lattice))
  /\ recip = ReciprocalOf(lattice)
  /\ dual = <<>>
  /\ points = GeneratedPoints(recip, maxIndex)
  /\ polygon = <<>>
  /\ faces = <<>>
  /\ idx = 0
  /\ firstBZ = <<>>
  /\ acc = <<>>
  /\ zones = <<>>
  /\ plane = <<>>
  /\ clipped = <<>>

\* computeFirstBZ2D(reordered points)
FirstBZ2DOf ==
  /\ pc = "points2d"
  /\ \E p \in Reorderings(points, MaxReorder2D) \cup {Reversed(points)} :
       /\ points' = p
       /\ firstBZ' = computeFirstBZ2D(p)
  /\ pc' = "ordered2d"
  /\ UNCHANGED <<ui, basis, recip, dual, lattice, maxIndex, maxZone, polygon, faces, idx, acc, zones, plane, clipped>>

\* computeFirstBZ3D(reordered points)
FirstBZ3DOf ==
  /\ pc = "points3d"
  /\ \E p \in Reorderings(points, MaxReorder3D) :
       /\ points' = p
       /\ firstBZ' = computeFirstBZ3D(p)
  /\ pc' = "ordered3d"
  /\ UNCHANGED <<ui, basis, recip, dual, lattice, maxIndex, maxZone, polygon, faces, idx, acc, zones, plane, clipped>>

NextOrder == FirstBZ2DOf \/ FirstBZ3DOf

SpecOrder == InitOrder /\ [][NextOrder]_vars

(***************************************************************************)
(* computeZoneDifference2D(outerPolygon, innerPolygon, planes, n), one     *)
(* state per pass of its subdivision loop.  polygon is outerPolygon,       *)
(* acc[1] is innerPolygon, points holds the G of the planes and zones the  *)
(* fragments.  The arguments are those of computeNthBZ2D (the accumulated  *)
(* zones n and n - 1 of a catalog lattice) and, for the square lattice,    *)
(* also the bounding square of computeAccumulatedBZ2D as outer polygon.    *)
(***************************************************************************)
OuterPolygons(type, pts, n) ==
  {computeAccumulatedBZ2D(pts, n)} \cup (IF type = "square" THEN {SeedSquare} ELSE {})

InitFragments ==
  /\ ui = <<>>
  /\ pc = "zoneargs"
  /\ lattice \in Types2D
  /\ maxIndex \in 1..MaxFragIndex
  /\ maxZone = 2
  /\ basis = LATTICE_2D(lattice)
  /\ recip = ReciprocalOf(lattice)
  /\ dual = <<>>
  /\ points = GeneratedPoints(recip, maxIndex)
  /\ polygon \in OuterPolygons(lattice, points, maxZone)
  /\ acc = <<computeAccumulatedBZ2D(points, maxZone - 1)>>
  /\ faces = <<>>
  /\ idx = 0
  /\ firstBZ = <<>>
  /\ zones = <<>>
  /\ plane = <<>>
  /\ clipped = <<>>

\* "if (innerPolygon.length < 3) return [outerPolygon]", else "let fragments = [outerPolygon]"
StartSubdivide ==
  /\ pc = "zoneargs"
  /\ zones' = <<polygon>>
  /\ idx' = 1
  /\ pc' = (IF Len(acc[1]) < 3 THEN "difference" ELSE "subdivide")
  /\ UNCHANGED <<ui, basis, recip, dual, lattice, maxIndex, maxZone, points, polygon, faces, firstBZ, acc, plane, clipped>>

\* one pass of "for (const plane of planes)", with "if (fragments.length > 500) break"
SubdivideStep ==
  /\ pc = "subdivide"
  /\ idx <= Len(points)
  /\ zones' = SplitAll(zones, points[idx], Len(zones))
  /\ idx' = (IF Len(zones') > MaxFragments THEN Len(points) + 1 ELSE idx + 1)
  /\ UNCHANGED <<ui, pc, basis, recip, dual, lattice, maxIndex, maxZone, points, polygon, faces, firstBZ, acc, plane, clipped>>

\* the filter by centroid after the loop, and the return
FinishDifference ==
  /\ pc = "subdivide"
  /\ idx > Len(points)
  /\ zones' = KeepAllOutside(zones, acc[1])
  /\ pc' = "difference"
  /\ UNCHANGED <<ui, basis, recip, dual, lattice, maxIndex, maxZone, points, polygon, faces, idx, firstBZ, acc, plane, clipped>>

NextFragments == StartSubdivide \/ SubdivideStep \/ FinishDifference

SpecFragments == InitFragments /\ [][NextFragments]_vars

(***************************************************************************)
(* The core operations as calls on arrays held by the caller: polygon is   *)
(* a vertex list, faces a face list, points a list of reciprocal points.   *)
(* A call leaves its result in clipped, firstBZ, zones or acc, and leaves  *)
(* in the caller's array what the statements of the operation that write   *)
(* arrays (push, sort, assignment) leave there.  Array.prototype.sort      *)
(* sorts its receiver in place; [...a] and a.map(f) are new arrays.        *)
(***************************************************************************)
\* math.js:120-134: the pushes go to the new array output
VerticesAfterClip2D(vertices) == vertices

\* "points.sort(...)": the receiver of sort is the argument
PointsAfterSortCCW_inplace(pts) == sortPointsCCW(pts)

\* math.js:92 "[...points].sort(...)": the receiver of sort is the copy
PointsAfterSortCCW(pts) == pts

\* lattice.js:493-530: the pushes go to newFaces, capVertices and clipped;
\* sortVertices3DCCW is handed capVertices and sorts its own array unique
FacesAfterClip3D(faceList) == faceList

\* lattice.js:213, 252, 459 (via 439): "for (const G of reciprocalPoints)" and
\* "reciprocalPoints.map(...)" read the list
PointsAfterFirstBZ(reciprocalPoints) == reciprocalPoints

\* lattice.js:339-344: "planes.sort(...)" sorts planes, the result of
\* reciprocalPoints.map(...)
PointsAfterAccumulated(reciprocalPoints) == reciprocalPoints

InitFrame ==
  /\ ui = <<>>
  /\ pc = "inputs"
  /\ lattice \in Types2D \cup Types3D
  /\ maxIndex \in 1..MaxOrderIndex
  /\ maxZone = MaxZone
  /\ basis = (IF lattice \in Types2D THEN LATTICE_2D(lattice) ELSE LATTICE_3D(lattice))
  /\ recip = ReciprocalOf(lattice)
  /\ dual = <<>>
  /\ points = GeneratedPoints(recip, maxIndex)
  /\ polygon \in (IF lattice \in Types2D THEN {SeedSquare, points} ELSE {<<>>})
  /\ faces = (IF lattice \in Types3D THEN createCubeFaces(SeedR3D) ELSE <<>>)
  /\ idx = 0
  /\ firstBZ = <<>>
  /\ acc = <<>>
  /\ zones = <<>>
  /\ plane = <<>>
  /\ clipped = <<>>

\* clipped = clipPolygonByPlane2D(polygon, normal, d) for the plane of a point
CallClip2D ==
  /\ pc = "inputs"
  /\ lattice \in Types2D
  /\ \E i \in 1..Len(points) :
       /\ plane' = [normal |-> points[i], d |-> PlaneD(points[i])]
       /\ clipped' = clipPolygonByPlane2D(polygon, points[i], PlaneD(points[i]))
  /\ polygon' = VerticesAfterClip2D(polygon)
  /\ pc' = "called"
  /\ UNCHANGED <<ui, basis, recip, dual, lattice, maxIndex, maxZone, points, faces, idx, firstBZ, acc, zones>>

\* firstBZ = sortPointsCCW(polygon)
CallSortCCW ==
  /\ pc = "inputs"
  /\ lattice \in Types2D
  /\ firstBZ' = sortPointsCCW(polygon)
  /\ polygon' = PointsAfterSortCCW(polygon)
  /\ pc' = "called"
  /\ UNCHANGED <<ui, basis, recip, dual, lattice, maxIndex, maxZone, points, faces, idx, acc, zones, plane, clipped>>

\* firstBZ = computeFirstBZ2D(points)
CallFirstBZ2D ==
  /\ pc = "inputs"
  /\ lattice \in Types2D
  /\ firstBZ' = computeFirstBZ2D(points)
  /\ points' = PointsAfterFirstBZ(points)
  /\ idx' = 1
  /\ pc' = "called"
  /\ UNCHANGED <<ui, basis, recip, dual, lattice, maxIndex, maxZone, polygon, faces, acc, zones, plane, clipped>>

\* zones = computeNthBZ2D(points, n)
CallNthBZ2D ==
  /\ pc = "inputs"
  /\ lattice \in Types2D
  /\ \E n \in 1..maxZone :
       /\ zones' = computeNthBZ2D(points, n)
       /\ idx' = n
  /\ points' = PointsAfterAccumulated(PointsAfterFirstBZ(points))
  /\ pc' = "called"
  /\ UNCHANGED <<ui, basis, recip, dual, lattice, maxIndex, maxZone, polygon, faces, firstBZ, acc, plane, clipped>>

\* acc = computeAccumulatedBZ2D(points, n)
CallAccumulated2D ==
  /\ pc = "inputs"
  /\ lattice \in Types2D
  /\ \E n \in 1..maxZone :
       /\ acc' = computeAccumulatedBZ2D(points, n)
       /\ idx' = n
  /\ points' = PointsAfterAccumulated(points)
  /\ pc' = "called"
  /\ UNCHANGED <<ui, basis, recip, dual, lattice, maxIndex, maxZone, polygon, faces, firstBZ, zones, plane, clipped>>

\* firstBZ = clipPolyhedronByPlane(faces, G, d) for the plane of a point
CallClip3D ==
  /\ pc = "inputs"
  /\ lattice \in Types3D
  /\ \E i \in 1..Len(points) :
       /\ plane' = [normal |-> points[i], d |-> PlaneD(points[i])]
       /\ firstBZ' = ClipByBragg3D(faces, points[i])
  /\ faces' = FacesAfterClip3D(faces)
  /\ pc' = "called"
  /\ UNCHANGED <<ui, basis, recip, dual, lattice, maxIndex, maxZone, points, polygon, idx, acc, zones, clipped>>

\* firstBZ = computeFirstBZ3D(points)
CallFirstBZ3D ==
  /\ pc = "inputs"
  /\ lattice \in Types3D
  /\ firstBZ' = computeFirstBZ3D(points)
  /\ points' = PointsAfterFirstBZ(points)
  /\ idx' = 1
  /\ pc' = "called"
  /\ UNCHANGED <<ui, basis, recip, dual, lattice, maxIndex, maxZone, polygon, faces, acc, zones, plane, clipped>>

NextFrame ==
  \/ CallClip2D
  \/ CallSortCCW
  \/ CallFirstBZ2D
  \/ CallNthBZ2D
  \/ CallAccumulated2D
  \/ CallClip3D
  \/ CallFirstBZ3D

SpecFrame == InitFrame /\ [][NextFrame]_vars

(***************************************************************************)
(* The Bragg planes of the reciprocal points of a catalog lattice          *)
(* (computeBraggPlanes3D in 3D, bisectorPlane per point in 2D) and         *)
(* pointInPolyhedron on them.  plane holds the list of plane records,      *)
(* clipped the point tested and idx the answer (1 for true, 0 for false).  *)
(* The points tested are the origin and, for every reciprocal point G,     *)
(* G / 2, G and MaxReach * G.                                              *)
(***************************************************************************)
Origin(n) == Tup([i \in 1..n |-> Zero])

TestPoints(b, pts) ==
  {Origin(Len(b))}
    \cup {vscale(pts[i], Rat(m, 2)) : i \in 1..Len(pts), m \in {1, 2, 2 * MaxReach}}

InitPlanes ==
  /\ ui = <<>>
  /\ lattice \in Types2D \cup Types3D
  /\ pc = (IF lattice \in Types2D THEN "points2d" ELSE "points3d")
  /\ maxIndex \in 1..MaxOrderIndex
  /\ maxZone = 1
  /\ basis = (IF lattice \in Types2D THEN LATTICE_2D(lattice) ELSE LATTICE_3D(lattice))
  /\ recip = ReciprocalOf(lattice)
  /\ dual = <<>>
  /\ points = GeneratedPoints(recip, maxIndex)
  /\ polygon = <<>>
  /\ faces = <<>>
  /\ idx = 0
  /\ firstBZ = <<>>
  /\ acc = <<>>
  /\ zones = <<>>
  /\ plane = <<>>
  /\ clipped = <<>>

\* planes = reciprocalPoints.map(G => bisectorPlane(G))
BisectorPlanes2D ==
  /\ pc = "points2d"
  /\ plane' = Tup([i \in 1..Len(points) |-> bisectorPlane(points[i])])
  /\ pc' = "planes"
  /\ UNCHANGED <<ui, basis, recip, dual, lattice, maxIndex, maxZone, points, polygon, faces, idx, firstBZ, acc, zones, clipped>>

\* planes = computeBraggPlanes3D(reciprocalPoints)
BraggPlanes3D ==
  /\ pc = "points3d"
  /\ plane' = computeBraggPlanes3D(points)
  /\ pc' = "planes"
  /\ UNCHANGED <<ui, basis, recip, dual, lattice, maxIndex, maxZone, points, polygon, faces, idx, firstBZ, acc, zones, clipped>>

\* pointInPolyhedron(k, planes)
PointInPolyhedron ==
  /\ pc = "planes"
  /\ \E k \in TestPoints(recip, points) :
       /\ clipped' = k
       /\ idx' = (IF pointInPolyhedron(k, plane) THEN 1 ELSE 0)
  /\ pc' = "tested"
  /\ UNCHANGED <<ui, basis, recip, dual, lattice, maxIndex, maxZone, points, polygon, faces, firstBZ, acc, zones, plane>>

NextPlanes == BisectorPlanes2D \/ BraggPlanes3D \/ PointInPolyhedron

SpecPlanes == InitPlanes /\ [][NextPlanes]_vars

(***************************************************************************)
(* The shells of computeAccumulatedBZ2D (lattice.js 338-360): the planes   *)
(* with their field dist = vlength(G) / 2, the sort by dist, the grouping  *)
(* loop and groups.slice(0, n), for lists of reciprocal points on the      *)
(* coordinate axes, where vlength(G) = sqrt(x * x) is |x|.  The lengths    *)
(* are 1, 2 and small multiples of 1e-9, so that distances closer than the *)
(* tolerance occur.  acc holds groups, zones holds usedGroups.             *)
(***************************************************************************)
\* vlength(G) for G = [x, 0] or [0, y]
AxisLength(G) == RAbs(IF IsZero(G[2]) THEN G[1] ELSE G[2])

\* reciprocalPoints.map(G => ({..., dist: vlength(G) / 2}))
DistPlanes(reciprocalPoints) ==
  Tup([i \in 1..Len(reciprocalPoints) |->
         [G |-> reciprocalPoints[i], dist |-> RHalf(AxisLength(reciprocalPoints[i]))]])

\* planes.sort((a, b) => a.dist - b.dist)
SortByDist(planes) ==
  StableSort(planes, [i \in 1..Len(planes) |-> [j \in 1..Len(planes) |->
                        RLt(planes[i].dist, planes[j].dist)]])

\* the else branch of "if (Math.abs(planes[i].dist - planes[i - 1].dist) < 1e-9)"
StartsGroup(sorted, i) ==
  ~LtEps(RAbs(RSub(sorted[i].dist, sorted[i - 1].dist)))

\* the number of the group that the loop puts planes[i] in
GroupNumber(sorted, i) ==
  1 + Cardinality({j \in 2..i : StartsGroup(sorted, j)})

GroupMembers(sorted, g) ==
  SelectSeq(Tup([i \in 1..Len(sorted) |-> [G |-> sorted[i].G, dist |-> sorted[i].dist, at |-> i]]),
            LAMBDA e : GroupNumber(sorted, e.at) = g)

\* groups, after the loop and the last groups.push(currentGroup)
GroupsOf(sorted) ==
  Tup([g \in 1..GroupNumber(sorted, Len(sorted)) |-> GroupMembers(sorted, g)])

\* groups.slice(0, n)
SliceTo(groups, n) == SubSeq(groups, 1, IF n < Len(groups) THEN n ELSE Len(groups))

AxisPoints ==
  {<<Rat(k, Pow9), Zero>> : k \in 1..MaxTiny} \cup {<<Zero, Rat(k, Pow9)>> : k \in 1..MaxTiny}
    \cup {IntVec(<<1, 0>>), IntVec(<<0, -1>>), IntVec(<<-2, 0>>)}

\* the short points of the x axis, in ascending order
TinyChain == Tup([k \in 1..MaxTiny |-> <<Rat(k, Pow9), Zero>>])

InitShells ==
  /\ ui = <<>>
  /\ pc = "points2d"
  /\ lattice = ""
  /\ maxIndex = 1
  /\ maxZone \in 1..2
  /\ basis = <<>>
  /\ recip = <<>>
  /\ dual = <<>>
  /\ points \in Triples(AxisPoints) \cup {TinyChain, Reversed(TinyChain)}
  /\ polygon = <<>>
  /\ faces = <<>>
  /\ idx = 0
  /\ firstBZ = <<>>
  /\ acc = <<>>
  /\ zones = <<>>
  /\ plane = <<>>
  /\ clipped = <<>>

\* lines 339-360 of computeAccumulatedBZ2D(points, maxZone)
GroupShells ==
  /\ pc = "points2d"
  /\ plane' = SortByDist(DistPlanes(points))
  /\ acc' = GroupsOf(plane')
  /\ zones' = SliceTo(acc', maxZone)
  /\ pc' = "grouped"
  /\ UNCHANGED <<ui, basis, recip, dual, lattice, maxIndex, maxZone, points, polygon, faces, idx, firstBZ, clipped>>

NextShells == GroupShells

SpecShells == InitShells /\ [][NextShells]_vars

(***************************************************************************)
(* computeFirstBZ2D and computeFirstBZ3D, one state per iteration of the   *)
(* loop, on the point lists of generateReciprocalPoints2D / 3D for the     *)
(* reciprocal bases of SpecPoints that yield no zero vector.               *)
(***************************************************************************)
NoZeroVector(pts) == \A i \in 1..Len(pts) : ~IsZero(vdot(pts[i], pts[i]))

InitFirstAny ==
  /\ ui = <<>>
  /\ recip \in GenBases2D \cup GenBases3D
  /\ pc = (IF Len(recip) = 2 THEN "points2d" ELSE "points3d")
  /\ lattice = ""
  /\ maxIndex \in 1..MaxOrderIndex
  /\ maxZone = 1
  /\ basis = <<>>
  /\ dual = <<>>
  /\ points = GeneratedPoints(recip, maxIndex)
  /\ NoZeroVector(points)
  /\ polygon = <<>>
  /\ faces = <<>>
  /\ idx = 0
  /\ firstBZ = <<>>
  /\ acc = <<>>
  /\ zones = <<>>
  /\ plane = <<>>
  /\ clipped = <<>>

NextFirstAny ==
  \/ StartFirstBZ2D
  \/ ClipStep2D
  \/ FinishFirstBZ2D
  \/ StartFirstBZ3D
  \/ ClipStep3D
  \/ FinishFirstBZ3D

SpecFirstAny == InitFirstAny /\ [][NextFirstAny]_vars

(***************************************************************************)
(* C1: for every non-degenerate basis the returned vectors satisfy         *)
(* b_i . a_j = 2*pi if i = j and 0 otherwise, for all index pairs.         *)
(***************************************************************************)
C1_Duality ==
  (pc = "reciprocal" /\ NonDegenerate(basis)) =>
    \A i \in 1..Len(basis) : \A j \in 1..Len(basis) :
      vdot(recip[i], basis[j]) = (IF i = j THEN TwoPI ELSE Zero)

C1_Witness ==
  /\ pc = "reciprocal"
  /\ basis = LATTICE_3D("bcc")
  /\ vdot(recip[1], basis[1]) = TwoPI
  /\ vdot(recip[1], basis[2]) = Zero

(***************************************************************************)
(* C2: round trip: for every supported 2D lattice basis, reciprocal2D      *)
(* applied to the output of reciprocal2D returns the original pair.        *)
(***************************************************************************)
C2_RoundTrip ==
  (pc = "dual" /\ basis \in {LATTICE_2D(t) : t \in Types2D}) => dual = basis

C2_Witness ==
  /\ pc = "dual"
  /\ basis = LATTICE_2D("hexagonal")
  /\ recip # basis
  /\ dual = basis

(***************************************************************************)
(* C3: computeFirstBZ2D on the reciprocal points of the square lattice     *)
(* with a = 1 returns a polygon of 4 vertices, the points (+-pi, +-pi),    *)
(* whatever maxIndex >= 1 generated the points.                            *)
(***************************************************************************)
C3_SquareFirstZone ==
  (pc = "first2d" /\ lattice = "square") =>
    /\ Len(firstBZ) = 4
    /\ {firstBZ[i] : i \in 1..Len(firstBZ)} =
         {<<x, y>> : x \in {PI, RNeg(PI)}, y \in {PI, RNeg(PI)}}

C3_Witness ==
  /\ pc = "first2d"
  /\ lattice = "square"
  /\ maxIndex = MaxIndex2D
  /\ Len(points) = (2 * maxIndex + 1) * (2 * maxIndex + 1) - 1
  /\ <<PI, PI>> \in {firstBZ[i] : i \in 1..Len(firstBZ)}

(***************************************************************************)
(* Measuring the zone results: k-points on a grid of step pi/2, membership *)
(* in a counter-clockwise convex polygon, total area of a fragment list.   *)
(***************************************************************************)
SampleK ==
  {<<RMul(Rat(i, 2), PI), RMul(Rat(j, 2), PI)>> :
     i \in (-MaxSample)..MaxSample, j \in (-MaxSample)..MaxSample}

\* (b - a) x (k - a) for the edge from poly[i] to its successor
EdgeCross(k, poly, i) ==
  LET a == poly[i]
      b == poly[(i % Len(poly)) + 1]
  IN  RSub(RMul(RSub(b[1], a[1]), RSub(k[2], a[2])),
           RMul(RSub(b[2], a[2]), RSub(k[1], a[1])))

InClosed(k, poly) ==
  Len(poly) >= 3 /\ \A i \in 1..Len(poly) : Sign(EdgeCross(k, poly, i)) >= 0

StrictlyInside(k, poly) ==
  Len(poly) >= 3 /\ \A i \in 1..Len(poly) : Sign(EdgeCross(k, poly, i)) > 0

RECURSIVE TotalAreaUpTo(_, _)
TotalAreaUpTo(fragments, m) ==
  IF m = 0 THEN Zero
  ELSE RAdd(TotalAreaUpTo(fragments, m - 1), polygonArea(fragments[m]))

TotalArea(fragments) == TotalAreaUpTo(fragments, Len(fragments))

(***************************************************************************)
(* C4: every fragment returned by computeNthBZ2D(points, n) lies in zone   *)
(* n: at its centroid exactly n - 1 Bragg planes satisfy G.k > |G|^2/2,    *)
(* that is getZoneNumber(centroid) = n.                                    *)
(***************************************************************************)
C4_FragmentsInZoneN ==
  \A n \in 1..Len(zones) : \A f \in 1..Len(zones[n]) :
    getZoneNumber(points, centroid(zones[n][f])) = n

(***************************************************************************)
(* C5: the polygon returned by computeAccumulatedBZ2D(points, n) is the    *)
(* union of the zones 1..n: a k-point (of the sample grid, all inside the  *)
(* seed square) lies in it exactly if at most n - 1 Bragg planes satisfy   *)
(* G.k > |G|^2/2.                                                          *)
(***************************************************************************)
C5_AccumulatedIsUnion ==
  \A n \in 1..Len(acc) : \A k \in SampleK :
    InClosed(k, acc[n]) <=> getZoneNumber(points, k) <= n

(***************************************************************************)
(* C6: equal area: the total area of the fragments of computeNthBZ2D       *)
(* (points, n) is the area of the 1st zone, within 1% of it.               *)
(***************************************************************************)
C6_EqualArea ==
  \A n \in 1..Len(zones) :
    LET a1 == TotalArea(zones[1])
        an == TotalArea(zones[n])
    IN  RLe(RMul(Int2Num(100), RAbs(RSub(an, a1))), a1)

(***************************************************************************)
(* C7: tiling: once the zones 1..maxZone and the accumulated zone of order *)
(* maxZone are computed, no k-point is interior to fragments of two        *)
(* different zones, and the fragments together cover exactly the           *)
(* accumulated zone of order maxZone.                                      *)
(***************************************************************************)
C7_Tiling ==
  (Len(zones) = maxZone /\ Len(acc) = maxZone) =>
    \A k \in SampleK :
      /\ Cardinality({n \in 1..maxZone :
            \E f \in 1..Len(zones[n]) : StrictlyInside(k, zones[n][f])}) <= 1
      /\ StrictlyInside(k, acc[maxZone]) =>
           \E n \in 1..maxZone : \E f \in 1..Len(zones[n]) :
             Sign(polygonArea(zones[n][f])) > 0 /\ InClosed(k, zones[n][f])
      /\ (\E n \in 1..maxZone : \E f \in 1..Len(zones[n]) :
             StrictlyInside(k, zones[n][f])) => InClosed(k, acc[maxZone])

(***************************************************************************)
(* Measuring a face list: squared distances, vertex set and edge set.      *)
(***************************************************************************)
FaceVertices(F) == UNION {{F[k].vertices[i] : i \in 1..Len(F[k].vertices)} : k \in 1..Len(F)}

\* an edge joins two consecutive entries of a vertex list
FaceEdges(F) ==
  UNION {{{F[k].vertices[i], F[k].vertices[(i % Len(F[k].vertices)) + 1]} :
            i \in 1..Len(F[k].vertices)} : k \in 1..Len(F)}

FacesOfSize(F, m) == {k \in 1..Len(F) : Len(F[k].vertices) = m}

\* four entries with four equal sides of positive length
IsRhombus(v) ==
  /\ Len(v) = 4
  /\ Sign(Dist2(v[1], v[2])) > 0
  /\ \A i \in 1..4 : Dist2(v[i], v[(i % 4) + 1]) = Dist2(v[1], v[2])

\* a rhombus with right angles (each diagonal is the hypotenuse of two sides)
IsSquare(v) ==
  /\ IsRhombus(v)
  /\ Dist2(v[1], v[3]) = RMul(Int2Num(2), Dist2(v[1], v[2]))
  /\ Dist2(v[2], v[4]) = RMul(Int2Num(2), Dist2(v[1], v[2]))

(***************************************************************************)
(* C8: computeFirstBZ3D on the reciprocal points of the simple cubic       *)
(* lattice with a = 1 returns exactly 6 faces, each with exactly 4         *)
(* vertices that form a square of area (2*pi)^2.                           *)
(***************************************************************************)
C8_CubicFaces ==
  (pc = "first3d" /\ lattice = "cubic") =>
    /\ Len(firstBZ) = 6
    /\ \A k \in 1..Len(firstBZ) :
         /\ IsSquare(firstBZ[k].vertices)
         /\ faceArea3D(firstBZ[k].vertices) = RMul(TwoPI, TwoPI)

C8_Witness ==
  /\ pc = "first3d"
  /\ lattice = "cubic"
  /\ maxIndex = MaxIndex3D
  /\ idx = Len(points) + 1
  /\ Len(firstBZ) = 6
  /\ Dist2(firstBZ[6].vertices[1], firstBZ[6].vertices[2]) = RMul(TwoPI, TwoPI)

(***************************************************************************)
(* C9: computeFirstBZ3D on the reciprocal points of the FCC lattice with   *)
(* a = 1 returns 14 faces, 8 of six vertices and 6 of four vertices, with  *)
(* 24 distinct vertices and 36 distinct edges, so that V - E + F = 2.      *)
(***************************************************************************)
C9_FccTruncatedOctahedron ==
  (pc = "first3d" /\ lattice = "fcc") =>
    /\ Len(firstBZ) = 14
    /\ Cardinality(FacesOfSize(firstBZ, 6)) = 8
    /\ Cardinality(FacesOfSize(firstBZ, 4)) = 6
    /\ Cardinality(FaceVertices(firstBZ)) = 24
    /\ Cardinality(FaceEdges(firstBZ)) = 36
    /\ Cardinality(FaceVertices(firstBZ)) - Cardinality(FaceEdges(firstBZ))
         + Len(firstBZ) = 2

C9_Witness ==
  /\ pc = "first3d"
  /\ lattice = "fcc"
  /\ maxIndex = MaxIndex3D
  /\ idx = Len(points) + 1
  /\ Len(firstBZ) = 14
  /\ Cardinality(FaceEdges(firstBZ)) = 36

(***************************************************************************)
(* C10: computeFirstBZ3D on the reciprocal points of the BCC lattice       *)
(* returns a rhombic dodecahedron: exactly 12 faces, each a rhombus with   *)
(* exactly 4 vertices in its vertex list.                                  *)
(***************************************************************************)
C10_BccRhombi ==
  (pc = "first3d" /\ lattice = "bcc") =>
    /\ Len(firstBZ) = 12
    /\ \A k \in 1..Len(firstBZ) : IsRhombus(firstBZ[k].vertices)

(***************************************************************************)
(* C11: reciprocal2D fails when det(a1, a2) is (near) zero and             *)
(* reciprocal3D fails when a1 . (a2 x a3) is (near) zero: for a degenerate *)
(* basis no reciprocal vectors are returned.                               *)
(***************************************************************************)
C11_DegenerateFails ==
  (pc \in {"reciprocal", "dual"} /\ ~NonDegenerate(basis)) => recip = <<>>

(***************************************************************************)
(* C12: a request whose type tag is not in the catalog of its mode fails   *)
(* before any computation: the handler ends in the error report and no     *)
(* basis, reciprocal vectors, reciprocal points or zone exist for it.      *)
(***************************************************************************)
Is2D == pc \in {"lattice2d", "unknown2d", "points2d", "clip2d", "first2d"}

UnknownTag == IF Is2D THEN lattice \notin Types2D ELSE lattice \notin Types3D

Side == 2 * maxIndex + 1

Indices == (-maxIndex)..maxIndex

\* h*b1 + k*b2 + l*b3 with b3 absent in 2D
LatticePoint(h, k, l) ==
  [c \in 1..Len(recip) |->
     IF Len(recip) = 2
     THEN RAdd(RMul(Int2Num(h), recip[1][c]), RMul(Int2Num(k), recip[2][c]))
     ELSE RAdd(RAdd(RMul(Int2Num(h), recip[1][c]), RMul(Int2Num(k), recip[2][c])),
               RMul(Int2Num(l), recip[3][c]))]

PositionsOf(G) == {i \in 1..Len(points) : points[i] = G}

C13_PointCount ==
  (pc = "generated" /\ NonDegenerate(recip)) =>
    /\ Len(points) = (IF Len(recip) = 2 THEN Side * Side ELSE Side * Side * Side) - 1
    /\ \A h \in Indices, k \in Indices, l \in (IF Len(recip) = 2 THEN {0} ELSE Indices) :
         Cardinality(PositionsOf(LatticePoint(h, k, l))) =
           (IF h = 0 /\ k = 0 /\ l = 0 THEN 0 ELSE 1)
    /\ \A i \in 1..Len(points), j \in 1..Len(points) : points[i] = points[j] => i = j

C13_Witness ==
  /\ pc = "generated"
  /\ NonDegenerate(recip)
  /\ Len(recip) = 3
  /\ maxIndex = MaxIndex3D
  /\ Len(points) = Side * Side * Side - 1

(***************************************************************************)
(* C14: the list returned by generateReciprocalPoints2D / 3D is strictly   *)
(* ascending by Euclidean norm: every point has a strictly greater norm    *)
(* than the point before it.  (Norms are compared by their squares.)       *)
(***************************************************************************)
NormSq(i) == vdot(points[i], points[i])

C14_StrictlyAscending ==
  pc = "generated" =>
    \A i \in 1..(Len(points) - 1) : RLt(NormSq(i), NormSq(i + 1))

(***************************************************************************)
(* C14, as the code has it: the list is ascending by Euclidean norm, with  *)
(* ties; no point has a smaller norm than the point before it.             *)
(***************************************************************************)
C14_Ascending ==
  pc = "generated" =>
    \A i \in 1..(Len(points) - 1) : RLe(NormSq(i), NormSq(i + 1))

C14_Witness ==
  /\ pc = "generated"
  /\ NonDegenerate(recip)
  /\ maxIndex > 1
  /\ \E i \in 1..(Len(points) - 1) : NormSq(i) = NormSq(i + 1)
  /\ \E i \in 1..(Len(points) - 1) : RLt(NormSq(i), NormSq(i + 1))

(***************************************************************************)
(* C15: clipPolygonByPlane2D keeps the region normal.x <= d.  For every    *)
(* input polygon, normal and d: every vertex of the output satisfies       *)
(* normal.x - d <= 1e-9; every input vertex satisfying that test appears   *)
(* in the output; and every newly inserted vertex lies on the boundary     *)
(* line normal.x = d and on the input edge it was computed from (between   *)
(* the two end points of that edge).                                       *)
(***************************************************************************)
SignedDist(x) == RSub(vdot(plane.normal, x), plane.d)

NextOf(i) == polygon[(i % Len(polygon)) + 1]

\* the parameter s of x = a + s * (b - a), read off the first coordinate in
\* which a and b differ
SegParam(x, a, b) ==
  IF ~IsZero(RSub(b[1], a[1])) THEN RDiv(RSub(x[1], a[1]), RSub(b[1], a[1]))
  ELSE IF ~IsZero(RSub(b[2], a[2])) THEN RDiv(RSub(x[2], a[2]), RSub(b[2], a[2]))
  ELSE Zero

\* x lies on the segment from a to b
OnSegment(x, a, b) ==
  /\ Sign(SegParam(x, a, b)) >= 0
  /\ RLe(SegParam(x, a, b), Int2Num(1))
  /\ x = vlerp(a, b, SegParam(x, a, b))

\* the vertices that the edge from polygon[i] inserted: those it appended
\* other than polygon[i] itself at the head
InsertedAt(i) ==
  LET out == ClipEdge(polygon, plane.normal, plane.d, i)
  IN IF LeEps(SignedDist(polygon[i]))
     THEN {out[m] : m \in 2..Len(out)}
     ELSE {out[m] : m \in 1..Len(out)}

C15_KeepsHalfPlane ==
  pc = "clipped2d" =>
    /\ \A m \in 1..Len(clipped) : LeEps(SignedDist(clipped[m]))
    /\ \A i \in 1..Len(polygon) :
         LeEps(SignedDist(polygon[i])) => \E m \in 1..Len(clipped) : clipped[m] = polygon[i]
    /\ \A i \in 1..Len(polygon) : \A x \in InsertedAt(i) :
         /\ IsZero(SignedDist(x))
         /\ OnSegment(x, polygon[i], NextOf(i))

(***************************************************************************)
(* C16: if every vertex of the polygon satisfies normal.x <= d,            *)
(* clipPolygonByPlane2D returns the polygon unchanged: the same vertices   *)
(* in the same order, with the same length.                                *)
(***************************************************************************)
C16_ContainedUnchanged ==
  (pc = "clipped2d" /\ \A i \in 1..Len(polygon) : Sign(SignedDist(polygon[i])) <= 0) =>
    clipped = polygon

C16_Witness ==
  /\ pc = "clipped2d"
  /\ Len(polygon) = 3
  /\ \A i \in 1..Len(polygon) : Sign(SignedDist(polygon[i])) <= 0
  /\ \E i \in 1..Len(polygon) : IsZero(SignedDist(polygon[i]))
  /\ \E i \in 1..Len(polygon) : Sign(SignedDist(polygon[i])) < 0
  /\ clipped = polygon

(***************************************************************************)
(* C17: if every vertex of the polygon lies strictly outside the           *)
(* half-plane (normal.x > d), clipPolygonByPlane2D returns an empty vertex *)
(* list; an empty input also returns an empty list.                        *)
(***************************************************************************)
C17_DisjointEmpty ==
  (pc = "clipped2d" /\ \A i \in 1..Len(polygon) : Sign(SignedDist(polygon[i])) > 0) =>
    clipped = <<>>

(***************************************************************************)
(* C17, as the code has it: if every vertex of the polygon lies outside    *)
(* the half-plane by more than the tolerance (normal.x - d > 1e-9),        *)
(* clipPolygonByPlane2D returns an empty vertex list; an empty input also  *)
(* returns an empty list.                                                  *)
(***************************************************************************)
C17_OutsideToleranceEmpty ==
  (pc = "clipped2d" /\ \A i \in 1..Len(polygon) : GtEps(SignedDist(polygon[i]))) =>
    clipped = <<>>

C17_Witness ==
  /\ pc = "clipped2d"
  /\ Len(polygon) = 3
  /\ \A i \in 1..Len(polygon) : GtEps(SignedDist(polygon[i]))
  /\ clipped = <<>>

(***************************************************************************)
(* C18: convexity and orientation are preserved by clipping: for every     *)
(* convex counter-clockwise polygon and every half-plane, the output of    *)
(* clipPolygonByPlane2D, when it has at least 3 vertices, is again convex  *)
(* with its vertices in counter-clockwise order: no vertex lies to the     *)
(* right of an edge (repeated and collinear vertices are let through).     *)
(***************************************************************************)
\* sign of u1 * v1 - u2 * v2, found from the signs of the products and the
\* ratios u1 / u2 and v2 / v1, so that no product leaves the number range
CmpProducts(u1, v1, u2, v2) ==
  IF Sign(u1) * Sign(v1) # Sign(u2) * Sign(v2)
  THEN Sgn(Sign(u1) * Sign(v1) - Sign(u2) * Sign(v2))
  ELSE IF Sign(u1) * Sign(v1) = 0 THEN 0
  ELSE Sign(u1) * Sign(v1) * Sign(RSub(RAbs(RDiv(u1, u2)), RAbs(RDiv(v2, v1))))

\* sign of the cross product (b - a) x (c - a): 1 if c is left of the line
\* from a to b, -1 if right, 0 if on it
TurnSign(a, b, c) ==
  CmpProducts(RSub(b[1], a[1]), RSub(c[2], a[2]), RSub(c[1], a[1]), RSub(b[2], a[2]))

VertexAt(v, i) == v[((i - 1) % Len(v)) + 1]

\* no vertex to the right of an edge
WeaklyConvexCCW(v) ==
  \A i \in 1..Len(v), j \in 1..Len(v) : TurnSign(v[i], VertexAt(v, i + 1), v[j]) >= 0

\* convex, counter-clockwise, of positive area
ConvexCCW(v) ==
  /\ Len(v) >= 3
  /\ WeaklyConvexCCW(v)
  /\ \E i \in 1..Len(v), j \in 1..Len(v) : TurnSign(v[i], VertexAt(v, i + 1), v[j]) > 0

C18_ConvexCCWPreserved ==
  (pc = "clipped2d" /\ ConvexCCW(polygon) /\ Len(clipped) >= 3) => WeaklyConvexCCW(clipped)

(***************************************************************************)
(* C19: closedness is preserved by 3D clipping: starting from the seed     *)
(* cube, after every clipPolyhedronByPlane step of computeFirstBZ3D        *)
(* (steps where the plane passes exactly through an existing vertex or     *)
(* edge included) every edge of the face list, i.e. every pair of          *)
(* consecutive entries of a vertex list, belongs to exactly two faces.     *)
(***************************************************************************)
EdgesOfFace(v) == {{v[i], v[(i % Len(v)) + 1]} : i \in 1..Len(v)}

FacesSharing(F, e) == {k \in 1..Len(F) : e \in EdgesOfFace(F[k].vertices)}

Closed(F) == \A e \in FaceEdges(F) : Cardinality(FacesSharing(F, e)) = 2

C19_ClosedAfterEveryClip ==
  pc \in {"clip3d", "first3d"} => Closed(faces)

\* a clip step has run whose plane passed through a vertex of a face (the
\* vertex is listed twice in that face) and one whose plane cut a new face
C19_Witness ==
  /\ pc = "clip3d"
  /\ idx > 1
  /\ Len(faces) > 6
  /\ \E k \in 1..Len(faces) :
       Cardinality({faces[k].vertices[i] : i \in 1..Len(faces[k].vertices)})
         < Len(faces[k].vertices)
  /\ Closed(faces)

(***************************************************************************)
(* C20: order independence: computeFirstBZ2D returns the same vertex list  *)
(* and computeFirstBZ3D the same set of faces for a reordering of the list *)
(* of reciprocal points as for the list in the order the generator         *)
(* returns it.                                                             *)
(***************************************************************************)
FaceSet(F) == {F[k] : k \in 1..Len(F)}

C20_OrderIndependent ==
  /\ pc = "ordered2d" =>
       firstBZ = computeFirstBZ2D(GeneratedPoints(recip, maxIndex))
  /\ pc = "ordered3d" =>
       FaceSet(firstBZ) = FaceSet(computeFirstBZ3D(GeneratedPoints(recip, maxIndex)))

(***************************************************************************)
(* C21: during the subdivision of computeZoneDifference2D the number of    *)
(* fragments held never exceeds the cap of 500.                            *)
(***************************************************************************)
C21_FragmentCap ==
  pc = "subdivide" => Len(zones) <= MaxFragments

(***************************************************************************)
(* C22: no core operation mutates its inputs: over a call of               *)
(* clipPolygonByPlane2D, clipPolyhedronByPlane, sortPointsCCW,             *)
(* computeFirstBZ2D, computeNthBZ2D, computeAccumulatedBZ2D or             *)
(* computeFirstBZ3D the vertex list, the face list and the reciprocal      *)
(* point list handed in keep their elements in the same order.             *)
(***************************************************************************)
InputsKept == polygon' = polygon /\ faces' = faces /\ points' = points

C23_OriginInside ==
  (pc = "tested" /\ lattice \in Types3D /\ clipped = Origin(3)) => idx = 1

C23_Witness ==
  /\ pc = "tested"
  /\ lattice = "bcc"
  /\ clipped = Origin(3)
  /\ Len(plane) = Len(points)
  /\ idx = 1

(***************************************************************************)
(* C24: every Bragg plane record {normal, d} produced by                   *)
(* computeBraggPlanes3D or bisectorPlane for a non-zero G represents the   *)
(* half-space G.k <= |G|^2/2: pointInPolyhedron accepts exactly the points *)
(* k with G.k <= |G|^2/2 for every G, and the midpoint G/2 satisfies       *)
(* normal.(G/2) = d.                                                       *)
(***************************************************************************)
InBraggHalfSpaces(k) ==
  \A i \in 1..Len(points) : LeEps(RSub(vdot(points[i], k), PlaneD(points[i])))

\* vdot(vnormalize(n), x) = d for a vector n # 0 and d > 0
OnPlaneOf(n, x, d) ==
  /\ Sign(vdot(n, x)) > 0
  /\ SquareOver(RDiv(vdot(n, x), d), vdot(n, n)) = Int2Num(1)

C24_BraggHalfSpace ==
  /\ pc = "tested" => ((idx = 1) <=> InBraggHalfSpaces(clipped))
  /\ pc \in {"planes", "tested"} =>
       \A i \in 1..Len(plane) :
         OnPlaneOf(plane[i].normal, vscale(plane[i].G, Rat(1, 2)), plane[i].d)

(***************************************************************************)
(* C25: the shell grouping of computeAccumulatedBZ2D partitions the Bragg  *)
(* planes by equal distance with tolerance 1e-9: two planes of the same    *)
(* shell have origin distances that differ by less than 1e-9, two planes   *)
(* of different shells differ by at least 1e-9, and the planes used are    *)
(* those of the first n shells.                                            *)
(***************************************************************************)
ShellMembers == {<<g, i>> \in (1..Len(acc)) \X (1..Len(plane)) : i <= Len(acc[g])}

DistGap(m1, m2) == RAbs(RSub(acc[m1[1]][m1[2]].dist, acc[m2[1]][m2[2]].dist))

C25_ShellsByDistance ==
  pc = "grouped" =>
    /\ \A m1 \in ShellMembers : \A m2 \in ShellMembers :
         (m1[1] = m2[1]) <=> LtEps(DistGap(m1, m2))
    /\ zones = SubSeq(acc, 1, Len(zones))
    /\ Len(zones) = (IF maxZone < Len(acc) THEN maxZone ELSE Len(acc))

(***************************************************************************)
(* C26: for a list of non-zero reciprocal vectors, after every clip step   *)
(* of computeFirstBZ2D and computeFirstBZ3D the origin satisfies every     *)
(* constraint applied so far and lies in the shape, the shape is not       *)
(* degenerate (at least 3 vertices, at least one face), so the loop never  *)
(* breaks early and every plane of the list is applied.                    *)
(***************************************************************************)
OriginKept(m) ==
  \A i \in 1..m : LeEps(RSub(vdot(points[i], Origin(Len(points[i]))), PlaneD(points[i])))

\* the steps so far did not take the break: the index advanced by one each time
C26_NoEarlyTermination ==
  /\ (pc = "clip2d" /\ idx > 1) =>
       /\ Len(polygon) >= 3
       /\ InClosed(Origin(2), polygon)
       /\ OriginKept(idx - 1)
  /\ (pc = "clip3d" /\ idx > 1) =>
       /\ Len(faces) > 0
       /\ \A k \in 1..Len(faces) : Len(faces[k].vertices) >= 3
       /\ OriginKept(idx - 1)
  /\ pc \in {"first2d", "first3d"} =>
       /\ idx = Len(points) + 1
       /\ Len(firstBZ) >= 3

\* both loops ran to the end of their list
C26_Witness ==
  /\ pc = "first3d"
  /\ lattice = ""
  /\ idx = Len(points) + 1
  /\ Len(points) > 20
  /\ Len(firstBZ) >= 4
  /\ \A i \in 1..Len(points) : ~IsZero(vdot(points[i], points[i]))

(***************************************************************************)
(* C27: applied to a polygon whose vertices are pairwise distinct,         *)
(* clipPolygonByPlane2D never outputs the same vertex twice, also when the *)
(* clipping line passes exactly through an input vertex whose neighbour    *)
(* lies outside.                                                           *)
(***************************************************************************)
PairwiseDistinct(v) == \A i \in 1..Len(v) : \A j \in 1..Len(v) : i # j => v[i] # v[j]

C27_NoRepeatedVertex ==
  (pc = "clipped2d" /\ PairwiseDistinct(polygon)) => PairwiseDistinct(clipped)

(***************************************************************************)
(* C28: every fragment returned by computeNthBZ2D for n >= 2 is a genuine  *)
(* polygon: at least 3 pairwise distinct vertices and strictly positive    *)
(* area.                                                                   *)
(***************************************************************************)
DistinctVertices(v) == Cardinality({v[i] : i \in 1..Len(v)})

GenuinePolygon(v) == DistinctVertices(v) >= 3 /\ Sign(polygonArea(v)) > 0

C28_GenuineFragments ==
  \A n \in 2..Len(zones) : \A f \in 1..Len(zones[n]) : GenuinePolygon(zones[n][f])

(***************************************************************************)
(* The labelled high-symmetry points: getHighSymmetryPoints2D and          *)
(* getHighSymmetryPoints3D (lattice.js 135-180) on the reciprocal basis of *)
(* a catalog lattice with lattice constant a in 1..MaxLatticeConst (and,   *)
(* for the rectangular lattice, b a multiple of 3/2).  acc holds the       *)
(* returned object as the list of its entries in insertion order, idx the  *)
(* entry looked at and clipped its coordinates.                            *)
(***************************************************************************)
MaxLatticeConst == 3

Entry(label, k) == [label |-> label, k |-> k]

\* [a[0] + b[0], a[1] + b[1], ...]
SumOf(a, b) == Tup([i \in 1..Len(a) |-> RAdd(a[i], b[i])])

HalfOf(v) == vscale(v, Rat(1, 2))

getHighSymmetryPoints2D(type, b1, b2) ==
  <<Entry("Gamma", Origin(2))>> \o
  CASE type = "square" ->
         <<Entry("X", HalfOf(b1)), Entry("M", HalfOf(SumOf(b1, b2)))>>
    [] type = "rectangular" ->
         <<Entry("X", HalfOf(b1)), Entry("Y", HalfOf(b2)), Entry("S", HalfOf(SumOf(b1, b2)))>>
    [] type = "hexagonal" ->
         <<Entry("K", vscale(SumOf(b1, b2), Rat(1, 3))), Entry("M", HalfOf(b1))>>
    [] OTHER -> <<>>

getHighSymmetryPoints3D(type, b1, b2, b3) ==
  <<Entry("Gamma", Origin(3))>> \o
  CASE type = "cubic" ->
         <<Entry("X", HalfOf(b1)), Entry("M", HalfOf(SumOf(b1, b2))),
           Entry("R", HalfOf(SumOf(SumOf(b1, b2), b3)))>>
    [] type = "fcc" ->
         <<Entry("X", HalfOf(b1)), Entry("L", HalfOf(SumOf(SumOf(b1, b2), b3))),
           Entry("W", HalfOf(SumOf(b1, b2))),
           Entry("K", vscale(SumOf(vscale(b1, Int2Num(3)), vscale(b2, Int2Num(3))), Rat(1, 8)))>>
    [] type = "bcc" ->
         <<Entry("H", HalfOf(vsub(SumOf(b1, b2), b3))), Entry("N", HalfOf(SumOf(b1, b2))),
           Entry("P", vscale(SumOf(SumOf(b1, b2), b3), Rat(1, 4)))>>
    [] OTHER -> <<>>

CatalogBases(type) ==
  IF type \in Types2D
  THEN {Lattice2DOf(type, Int2Num(a), IF type = "rectangular" THEN Rat(3 * c, 2) ELSE Zero) :
          a \in 1..MaxLatticeConst,
          c \in (IF type = "rectangular" THEN 1..MaxLatticeConst ELSE {1})}
  ELSE {Lattice3DFor(type, Int2Num(a)) : a \in 1..MaxLatticeConst}

InitSymmetry ==
  /\ ui = <<>>
  /\ lattice \in Types2D \cup Types3D
  /\ pc = "basis"
  /\ maxIndex \in 1..MaxOrderIndex
  /\ maxZone = 1
  /\ basis \in CatalogBases(lattice)
  /\ recip = <<>>
  /\ dual = <<>>
  /\ points = <<>>
  /\ polygon = <<>>
  /\ faces = <<>>
  /\ idx = 0
  /\ firstBZ = <<>>
  /\ acc = <<>>
  /\ zones = <<>>
  /\ plane = <<>>
  /\ clipped = <<>>

\* update2D: reciprocal2D, generateReciprocalPoints2D, getHighSymmetryPoints2D
Symmetry2D ==
  /\ pc = "basis"
  /\ lattice \in Types2D
  /\ recip' = reciprocal2D(basis[1], basis[2])
  /\ points' = generateReciprocalPoints2D(recip'[1], recip'[2], maxIndex)
  /\ acc' = getHighSymmetryPoints2D(lattice, recip'[1], recip'[2])
  /\ pc' = "symmetry"
  /\ UNCHANGED <<ui, basis, dual, lattice, maxIndex, maxZone, polygon, faces, idx, firstBZ, zones, plane, clipped>>

\* update3D: reciprocal3D, generateReciprocalPoints3D, getHighSymmetryPoints3D
Symmetry3D ==
  /\ pc = "basis"
  /\ lattice \in Types3D
  /\ recip' = reciprocal3D(basis[1], basis[2], basis[3])
  /\ points' = generateReciprocalPoints3D(recip'[1], recip'[2], recip'[3], maxIndex)
  /\ acc' = getHighSymmetryPoints3D(lattice, recip'[1], recip'[2], recip'[3])
  /\ pc' = "symmetry"
  /\ UNCHANGED <<ui, basis, dual, lattice, maxIndex, maxZone, polygon, faces, idx, firstBZ, zones, plane, clipped>>

\* one entry of the returned object is read
ReadEntry ==
  /\ pc = "symmetry"
  /\ \E i \in 1..Len(acc) :
       /\ idx' = i
       /\ clipped' = acc[i].k
  /\ pc' = "entry"
  /\ UNCHANGED <<ui, basis, recip, dual, lattice, maxIndex, maxZone, points, polygon, faces, firstBZ, acc, zones, plane>>

NextSymmetry == Symmetry2D \/ Symmetry3D \/ ReadEntry

SpecSymmetry == InitSymmetry /\ [][NextSymmetry]_vars

(***************************************************************************)
(* C29: for every supported lattice type, every high-symmetry point        *)
(* returned by getHighSymmetryPoints2D / getHighSymmetryPoints3D lies in   *)
(* the closed 1st Brillouin zone: G.k <= |G|^2/2 for every generated       *)
(* reciprocal point G.                                                     *)
(***************************************************************************)
InClosedFirstZone(k) ==
  \A i \in 1..Len(points) : RLe(vdot(points[i], k), RHalf(vdot(points[i], points[i])))

C29_SymmetryPointsInFirstZone == pc = "entry" => InClosedFirstZone(clipped)

(***************************************************************************)
(* The page: controls.js (initControls, update2D3DVisibility) and update() *)
(* of main.js, with #mode-toggle, #lattice-select and #zone-slider         *)
(* present.  lattice is state.latticeType, maxZone is state.maxZone, ui    *)
(* holds state.mode, the options of #lattice-select and whether the zone   *)
(* timer is pending.  Every handler runs to its end in one step; acc lists *)
(* the calls of update2D / update3D that the last handler made, each with  *)
(* state.mode and state.latticeType at its entry and whether it took the   *)
(* 'Unknown lattice type' branch; pc names the last handler.  update3D may *)
(* throw while the renderer is built (before the catalog lookup) or while  *)
(* the scene is drawn (after it).                                          *)
(***************************************************************************)
options2D == <<"square", "rectangular", "hexagonal">>

options3D == <<"cubic", "fcc", "bcc">>

\* const options = state.mode === '2d' ? options2D : options3D
OptionsOf(mode) == IF mode = "2d" THEN options2D ELSE options3D

\* a page that keeps the selected type when the options are rebuilt
LatticeTypeShown_kept(mode, latticeType) == latticeType

\* update2D3DVisibility: state.latticeType = options[0]
LatticeTypeShown(mode, latticeType) == OptionsOf(mode)[1]

Failures == {"none", "renderer", "render"}

Call(fn, mode, latticeType, unknown) ==
  [fn |-> fn, mode |-> mode, latticeType |-> latticeType, unknown |-> unknown]

PageAfter(mode, latticeType, options, calls) ==
  [mode |-> mode, latticeType |-> latticeType, options |-> options, calls |-> calls]

\* update2D: the catalog lookup, then the drawing; its own errors are caught and logged
update2D(mode, latticeType, options, before) ==
  PageAfter(mode, latticeType, options,
            Append(before, Call("update2D", mode, latticeType, latticeType \notin Types2D)))

\* the catch block of update3D: state.mode = '2d'; update2D3DVisibility(); update2D()
Fallback(latticeType, before) ==
  update2D("2d", LatticeTypeShown("2d", latticeType), OptionsOf("2d"), before)

update3D(mode, latticeType, options, fail) ==
  IF fail = "renderer"
  THEN Fallback(latticeType, <<Call("update3D", mode, latticeType, FALSE)>>)
  ELSE IF latticeType \notin Types3D
  THEN PageAfter(mode, latticeType, options, <<Call("update3D", mode, latticeType, TRUE)>>)
  ELSE IF fail = "render"
  THEN Fallback(latticeType, <<Call("update3D", mode, latticeType, FALSE)>>)
  ELSE PageAfter(mode, latticeType, options, <<Call("update3D", mode, latticeType, FALSE)>>)

update(mode, latticeType, options, fail) ==
  IF mode = "2d"
  THEN update2D(mode, latticeType, options, <<>>)
  ELSE update3D(mode, latticeType, options, fail)

\* what a handler leaves behind once its update() has returned
Settle(handler, after, timer) ==
  /\ ui' = [mode |-> after.mode, options |-> after.options, timer |-> timer]
  /\ lattice' = after.latticeType
  /\ acc' = after.calls
  /\ pc' = handler

\* init(): initControls, whose last statement is update2D3DVisibility(), then update()
InitControls ==
  /\ ui = [mode |-> "2d", options |-> OptionsOf("2d"), timer |-> FALSE]
  /\ lattice = LatticeTypeShown("2d", "square")
  /\ acc = update("2d", lattice, OptionsOf("2d"), "none").calls
  /\ pc = "init"
  /\ maxIndex = 1
  /\ maxZone = 1
  /\ basis = <<>>
  /\ recip = <<>>
  /\ dual = <<>>
  /\ points = <<>>
  /\ polygon = <<>>
  /\ faces = <<>>
  /\ idx = 0
  /\ firstBZ = <<>>
  /\ zones = <<>>
  /\ plane = <<>>
  /\ clipped = <<>>

Flipped(mode) == IF mode = "2d" THEN "3d" ELSE "2d"

\* click on #mode-toggle
ModeToggleClick ==
  /\ \E fail \in Failures :
       Settle("modeToggle",
              update(Flipped(ui.mode), LatticeTypeShown(Flipped(ui.mode), lattice),
                     OptionsOf(Flipped(ui.mode)), fail),
              ui.timer)
  /\ UNCHANGED <<basis, recip, dual, maxIndex, maxZone, points, polygon, faces, idx, firstBZ, zones, plane, clipped>>

\* change on #lattice-select: e.target.value is one of its options
LatticeSelectChange ==
  /\ \E i \in 1..Len(ui.options) : \E fail \in Failures :
       Settle("latticeSelect", update(ui.mode, ui.options[i], ui.options, fail), ui.timer)
  /\ UNCHANGED <<basis, recip, dual, maxIndex, maxZone, points, polygon, faces, idx, firstBZ, zones, plane, clipped>>

\* input on #zone-slider: the value is stored and the timer (re)started
ZoneSliderInput ==
  /\ \E value \in 1..MaxZone : maxZone' = value
  /\ ui' = [ui EXCEPT !.timer = TRUE]
  /\ pc' = "zoneSlider"
  /\ UNCHANGED <<basis, recip, dual, lattice, maxIndex, points, polygon, faces, idx, firstBZ, acc, zones, plane, clipped>>

\* the timer of the slider fires 300 ms after the last input
ZoneTimerFires ==
  /\ ui.timer
  /\ \E fail \in Failures :
       Settle("zoneTimer", update(ui.mode, lattice, ui.options, fail), FALSE)
  /\ UNCHANGED <<basis, recip, dual, maxIndex, maxZone, points, polygon, faces, idx, firstBZ, zones, plane, clipped>>

\* resize of the window, interaction with the 2D canvas, a display toggle: update()
Redraw ==
  /\ \E fail \in Failures :
       Settle("redraw", update(ui.mode, lattice, ui.options, fail), ui.timer)
  /\ UNCHANGED <<basis, recip, dual, maxIndex, maxZone, points, polygon, faces, idx, firstBZ, zones, plane, clipped>>

NextControls ==
  ModeToggleClick \/ LatticeSelectChange \/ ZoneSliderInput \/ ZoneTimerFires \/ Redraw

SpecControls == InitControls /\ [][NextControls]_vars

(***************************************************************************)
(* C30: with the lattice selector present, after any sequence of mode      *)
(* toggles, selector changes, slider inputs and 3D render failures, every  *)
(* run of update2D / update3D finds state.latticeType among the keys of    *)
(* the catalog of state.mode, and the 'Unknown lattice type' branch is     *)
(* never taken.                                                            *)
(***************************************************************************)
CatalogOf(mode) == IF mode = "2d" THEN Types2D ELSE Types3D

C30_LatticeTypeMatchesMode ==
  \A i \in 1..Len(acc) :
     acc[i].latticeType \in CatalogOf(acc[i].mode) /\ ~acc[i].unknown

\* a slider update in 3D mode, on a type chosen in the selector, that failed
\* while drawing and fell back to update2D
C30_Witness ==
  /\ pc = "zoneTimer"
  /\ Len(acc) = 2
  /\ acc[1].fn = "update3D" /\ acc[1].latticeType = "bcc"
  /\ acc[2].fn = "update2D" /\ acc[2].latticeType = "square"
  /\ ui.mode = "2d"

====
